---- MODULE Spec2Model ----
(***************************************************************************)
(* Process lifecycle of moneroger: the daemon supervisor (MoneroDaemon),   *)
(* the wallet supervisor (WalletRPC) and the coordinator (Moneroger) that  *)
(* starts the daemon before the wallet and stops them in reverse order.    *)
(* The operating system (listening ports, processes, their exit) is the    *)
(* environment; every step of the Go code that reads or changes it is one  *)
(* action.                                                                 *)
(***************************************************************************)
EXTENDS Integers, Sequences, FiniteSets, TLC

(* ------------------------------ bounds -------------------------------- *)

\* Number of readiness probes before the startup deadline has passed
\* (DefaultStartupTimeout / poll interval, scaled down).
MaxProbes ==
    2

\* Number of Shutdown calls a caller makes on one handle.
MaxShutdownCalls ==
    2

\* Number of Start calls a caller makes on one wallet handle.
MaxStartCalls ==
    2

\* Number of fmt.Errorf layers a caller wraps around a taxonomy error.
MaxWraps ==
    2

(* ------------------------- errors (errors pkg) ------------------------ *)

KindUnknown ==
    0
KindNetwork ==
    1
KindProcess ==
    2
KindConfig ==
    3
KindTimeout ==
    4
KindSystem ==
    5

ComponentMonerod ==
    "monerod"
ComponentWalletRPC ==
    "wallet-rpc"

OpStart ==
    "Start"
OpPortBinding ==
    "PortBinding"
OpProcessSpawn ==
    "ProcessSpawn"
opStart ==
    "WalletRPC.Start"
opShutdown ==
    "WalletRPC.Shutdown"
opValidateConfig ==
    "WalletRPC.ValidateConfig"
opCheckHealth ==
    "WalletRPC.CheckHealth"

\* An error value is the chain of its layers, outermost first; nil is << >>.
\* A layer is either a taxonomy *Error or a plain error carrying a message.
Nil ==
    << >>

\* fmt.Errorf / errors.New without a wrapped cause.
Raw(msg) ==
    << [tax |-> FALSE, op |-> "", component |-> "", kind |-> KindUnknown, msg |-> msg] >>

\* fmt.Errorf("msg: %w", err)
Errorf(msg, err) ==
    Raw(msg) \o err

\* errors.E(op, component, kind, err)
E(op, component, kind, err) ==
    << [tax |-> TRUE, op |-> op, component |-> component, kind |-> kind, msg |-> ""] >> \o err

\* errors.GetKind by a type assertion on the error itself, no unwrapping.
GetKind_NoUnwrap(err) ==
    IF err # Nil /\ err[1].tax THEN err[1].kind ELSE KindUnknown

\* errors.GetKind: errors.As finds the outermost *Error of the chain.
GetKind(err) ==
    IF \E i \in 1..Len(err) : err[i].tax
    THEN LET first == CHOOSE i \in 1..Len(err) :
                          /\ err[i].tax
                          /\ \A j \in 1..(i - 1) : ~err[j].tax
         IN  err[first].kind
    ELSE KindUnknown

\* One argument of the variadic errors.E: its dynamic type and its value
\* (s for an Op or a string, k for a Kind, e for an error).
OpArg(op) ==
    [type |-> "Op", s |-> op, k |-> KindUnknown, e |-> Nil]
StringArg(component) ==
    [type |-> "string", s |-> component, k |-> KindUnknown, e |-> Nil]
KindArg(kind) ==
    [type |-> "Kind", s |-> "", k |-> kind, e |-> Nil]
ErrorArg(err) ==
    [type |-> IF err # Nil /\ err[1].tax THEN "*Error" ELSE "error",
     s |-> "", k |-> KindUnknown, e |-> err]

\* The zero value &Error{} errors.E starts from.
ZeroError ==
    [op |-> "", component |-> "", kind |-> KindUnknown, err |-> Nil]

\* errors.E that stops reading its arguments at the first underlying error.
RECURSIVE EFields_StopAtError(_, _)
EFields_StopAtError(e, args) ==
    IF args = << >> THEN e
    ELSE LET a == Head(args)
         IN  CASE a.type = "Op"     -> EFields_StopAtError([e EXCEPT !.op = a.s], Tail(args))
               [] a.type = "string" -> EFields_StopAtError([e EXCEPT !.component = a.s], Tail(args))
               [] a.type = "Kind"   -> EFields_StopAtError([e EXCEPT !.kind = a.k], Tail(args))
               [] OTHER             -> [e EXCEPT !.err = a.e]

\* The loop of errors.E: the type switch sets one field per argument, a
\* later argument of the same type replacing an earlier one.
RECURSIVE EFields(_, _)
EFields(e, args) ==
    IF args = << >> THEN e
    ELSE LET a == Head(args)
         IN  CASE a.type = "Op"     -> EFields([e EXCEPT !.op = a.s], Tail(args))
               [] a.type = "string" -> EFields([e EXCEPT !.component = a.s], Tail(args))
               [] a.type = "Kind"   -> EFields([e EXCEPT !.kind = a.k], Tail(args))
               [] a.type = "*Error" -> EFields([e EXCEPT !.err = a.e], Tail(args))
               [] OTHER             -> EFields([e EXCEPT !.err = a.e], Tail(args))

\* errors.E(args...): the *Error built from the arguments in the order given.
EVariadic(args) ==
    LET e == EFields(ZeroError, args)
    IN  E(e.op, e.component, e.kind, e.err)

\* errors.Is comparing the kinds of the first taxonomy errors of the chains.
Is_Unwrapping(err, target) ==
    /\ \E i \in 1..Len(err) : err[i].tax
    /\ \E i \in 1..Len(target) : target[i].tax
    /\ GetKind(err) = GetKind(target)

\* errors.Is: both values must be *Error themselves (a type assertion, no
\* unwrapping) and have the same Kind.
Is(err, target) ==
    IF err = Nil \/ ~err[1].tax THEN FALSE
    ELSE IF target = Nil \/ ~target[1].tax THEN FALSE
    ELSE err[1].kind = target[1].kind

\* Kind.String
KindString(kind) ==
    CASE kind = KindNetwork -> "network error"
      [] kind = KindProcess -> "process error"
      [] kind = KindConfig  -> "configuration error"
      [] kind = KindTimeout -> "timeout error"
      [] kind = KindSystem  -> "system error"
      [] OTHER              -> "unknown error"

\* (*Error).Error with the operation before the component.
RECURSIVE ErrorString_OpFirst(_)
ErrorString_OpFirst(err) ==
    LET l == Head(err)
        own == IF l.tax
               THEN l.op \o ": " \o l.component \o ": " \o KindString(l.kind)
               ELSE l.msg
    IN  IF Tail(err) = Nil THEN own ELSE own \o ": " \o ErrorString_OpFirst(Tail(err))

\* The message of a non-nil error: (*Error).Error for a taxonomy error,
\* "%s: %s: %s" of component, operation and kind, followed by ": %v" of the
\* underlying error when there is one; the text of fmt.Errorf("msg: %w", err)
\* for a plain error.
RECURSIVE ErrorString(_)
ErrorString(err) ==
    LET l == Head(err)
        own == IF l.tax
               THEN l.component \o ": " \o l.op \o ": " \o KindString(l.kind)
               ELSE l.msg
    IN  IF Tail(err) = Nil THEN own ELSE own \o ": " \o ErrorString(Tail(err))

\* err wrapped n times by fmt.Errorf("context: %w", err).
RECURSIVE Wrapped(_, _)
Wrapped(err, n) ==
    IF n = 0 THEN err ELSE Errorf("context", Wrapped(err, n - 1))

\* What a call returned: nothing yet, nil, an error, or a run-time panic.
NoResult ==
    [status |-> "none", err |-> Nil]
Ok ==
    [status |-> "ok", err |-> Nil]
Err(e) ==
    [status |-> "err", err |-> e]
Panic ==
    [status |-> "panic", err |-> Nil]

(* ----------------------- formatting (fmt.Sprintf) --------------------- *)

Digit(n) ==
    CASE n = 0 -> "0" [] n = 1 -> "1" [] n = 2 -> "2" [] n = 3 -> "3"
      [] n = 4 -> "4" [] n = 5 -> "5" [] n = 6 -> "6" [] n = 7 -> "7"
      [] n = 8 -> "8" [] n = 9 -> "9"

RECURSIVE NatToStr(_)
NatToStr(n) ==
    IF n < 10 THEN Digit(n) ELSE NatToStr(n \div 10) \o Digit(n % 10)

\* fmt.Sprintf("%d", n)
IntToStr(n) ==
    IF n < 0 THEN "-" \o NatToStr(0 - n) ELSE NatToStr(n)

(* ----------------------------- inputs --------------------------------- *)

\* Ports on which something can listen.
ValidPorts ==
    {18081, 18083, 28081}

\* util.Config values handed to the constructors.
Configs ==
    [MoneroPort : {-1, 18081, 28081}, WalletPort : {0, 18081, 18083},
     WalletFile : {"", "wallet", "/nonexistent/wallet"}]

\* The wallet files that exist on disk.
ExistingFiles ==
    {"wallet"}

\* Values util.SecurePassword can return.
Passwords ==
    {"pwA", "pwB"}

\* Process ids the operating system can give a spawned process.
Pids ==
    {7, 4242}

\* Ports a direct caller hands to util.WaitForPort (0 as in TestWaitForPort).
ProbePorts ==
    {0, 18081, 18083}


\* Arguments handed to errors.E: at most one Op, one component string, one
\* Kind and one underlying error (a plain error or another *Error).
ArgPool ==
    {OpArg(OpStart), StringArg(ComponentMonerod),
     KindArg(KindNetwork), KindArg(KindProcess),
     ErrorArg(Raw("connection failed")),
     ErrorArg(E(opShutdown, ComponentWalletRPC, KindTimeout, Nil))}

\* The parameter of errors.E an argument sets.
Slot(a) ==
    IF a.type \in {"error", "*Error"} THEN "Err" ELSE a.type

ArgSets ==
    {S \in SUBSET ArgPool : \A a \in S, b \in S : a # b => Slot(a) # Slot(b)}

\* Every order in which a set of arguments can be written at a call.
Orders(S) ==
    {f \in [1..Cardinality(S) -> S] :
        \A i \in 1..Cardinality(S), j \in 1..Cardinality(S) : i # j => f[i] # f[j]}

ArgLists ==
    UNION {Orders(S) : S \in ArgSets}

\* The order of the documentation: E(op, component, kind, err).
SlotRank(a) ==
    CASE Slot(a) = "Op" -> 1 [] Slot(a) = "string" -> 2 [] Slot(a) = "Kind" -> 3 [] OTHER -> 4

Documented(args) ==
    \A i \in 1..Len(args), j \in 1..Len(args) : i < j => SlotRank(args[i]) < SlotRank(args[j])

\* Second operands of errors.Is and further operands of errors.GetKind: nil,
\* plain errors, taxonomy errors, and a taxonomy error inside a plain one.
Targets ==
    {Nil,
     Raw("regular error"),
     E(OpStart, ComponentMonerod, KindNetwork, Nil),
     E(opShutdown, ComponentWalletRPC, KindNetwork, Raw("connection refused")),
     E(OpStart, ComponentMonerod, KindProcess, Nil),
     Errorf("context", E(OpStart, ComponentMonerod, KindNetwork, Nil))}

Components ==
    {ComponentMonerod, ComponentWalletRPC}

\* Who drives the handles: the coordinator (NewMoneroger, then
\* Moneroger.Shutdown), the daemon constructor alone (NewMoneroDaemon, then
\* MoneroDaemon.Shutdown), handles constructed empty (&MoneroDaemon{},
\* &WalletRPC{}) whose methods are called directly, a direct caller of
\* util.WaitForPort with a context it may cancel, the holder of a wallet
\* handle that calls WalletRPC.Start and WalletRPC.Shutdown on it in any
\* order and from two goroutines, or a caller of the errors package.
Drivers ==
    {"coordinator", "daemon", "empty", "prober", "wallet", "errors"}

VARIABLES
    driver, config, ctxDone,
    listening, proc,
    d, w,
    pc, ret, probes, pending,
    curWaiter, done, abandoned,
    daemonStart, walletStart, create, sdRes, mgrShutdown,
    dPortSeen, wValidated, seenAtStart, pre, calls, walletArgs, dsInvoked, okExit,
    probe, passRet, pidRet,
    starts, startCancelled, orphans, ctxKilled,
    spc, sRes, sWaiter, sDone,
    errArgs, errWraps, errTarget, errVal, errKind, errIs, errText,
    daemonArgs, wpRet

vars ==
    << driver, config, ctxDone, listening, proc, d, w, pc, ret, probes, pending,
       curWaiter, done, abandoned,
       daemonStart, walletStart, create, sdRes, mgrShutdown,
       dPortSeen, wValidated, seenAtStart, pre, calls, walletArgs, dsInvoked, okExit,
       probe, passRet, pidRet,
       starts, startCancelled, orphans, ctxKilled,
       spc, sRes, sWaiter, sDone,
       errArgs, errWraps, errTarget, errVal, errKind, errIs, errText,
       daemonArgs, wpRet >>

envVars ==
    << listening, proc >>
waitVars ==
    << curWaiter, done, abandoned >>
resVars ==
    << daemonStart, walletStart, create, sdRes, mgrShutdown >>
histVars ==
    << dPortSeen, wValidated, seenAtStart, pre, calls, walletArgs, dsInvoked, okExit >>
\* What the last call of util.WaitForPort, of the password accessors and of
\* PID did and returned.
obsVars ==
    << probe, passRet, pidRet >>
\* The Start calls made on a wallet handle held by its caller: their number,
\* whether the context of the last one was already cancelled, and the
\* processes still alive whose reference a later spawn has overwritten;
\* whether the os/exec package has killed the daemon process.
seqVars ==
    << starts, startCancelled, orphans, ctxKilled >>
\* The goroutine that runs WalletRPC.Shutdown while another one runs Start:
\* its position, its result, its waiting goroutine and its done channel.
concVars ==
    << spc, sRes, sWaiter, sDone >>
\* The arguments and the results of the calls into the errors package.
errVars ==
    << errArgs, errWraps, errTarget, errVal, errKind, errIs, errText >>
\* The --rpc-login argument the daemon process was started with, and the
\* record of the last call of WalletPass.
credVars ==
    << daemonArgs, wpRet >>

(* ----------------------------- handles -------------------------------- *)

\* MoneroDaemon: process is TRUE when the process field is not nil.
ZeroDaemon ==
    [exists |-> FALSE, process |-> FALSE, rpcPort |-> 0, rpcUser |-> "", rpcPass |-> ""]

\* WalletRPC: cmd is TRUE when w.cmd is not nil, cmdProcess when
\* w.cmd.Process is not nil, daemon when the daemon pointer is not nil.
ZeroWallet ==
    [exists |-> FALSE, cmd |-> FALSE, cmdProcess |-> FALSE, rpcPort |-> 0,
     rpcUser |-> "", rpcPass |-> "", walletPass |-> "", daemon |-> FALSE]

NoArgs ==
    [daemonAddress |-> "", daemonLogin |-> "", rpcLogin |-> "", password |-> ""]

\* The --rpc-login argument of the daemon process: none before the argument
\* list is built.
NoDaemonArgs ==
    [rpcLogin |-> ""]

NoProc ==
    [state |-> "none", signals |-> 0, spawns |-> 0, pid |-> 0]

\* Whether the supervisor of component c holds a process reference.
Held(c) ==
    IF c = ComponentMonerod THEN d.process ELSE (w.cmd /\ w.cmdProcess)

\* No Shutdown of the supervisor has yet returned success for a process that
\* had exited; once one has, the number of signals sent up to then.
NoExit ==
    [seen |-> FALSE, sigs |-> 0]

NoPre ==
    [held |-> FALSE, sigs |-> 0, d |-> ZeroDaemon, w |-> ZeroWallet]

\* The state a Shutdown call of component c starts from.
Snapshot(c) ==
    [held |-> Held(c), sigs |-> proc[c].signals, d |-> d, w |-> w]

(* --------------------------- util package ----------------------------- *)

\* util.IsPortInUse: a TCP connection to localhost:port succeeds.
IsPortInUse(port) ==
    /\ port \in ValidPorts
    /\ listening[port] # "none"

\* WaitForPort with a deadline that ends the wait without an error.
WaitForPortStep_OkOnTimeout(cancelled, port, n) ==
    IF n >= MaxProbes THEN "ok"
    ELSE IF cancelled THEN "cancelled"
    ELSE IF IsPortInUse(port) THEN "ok"
    ELSE "retry"

\* WaitForPort without the select on ctx.Done().
WaitForPortStep_NoCtxCheck(cancelled, port, n) ==
    IF n >= MaxProbes THEN "timeout"
    ELSE IF IsPortInUse(port) THEN "ok"
    ELSE "retry"

\* WaitForPort sleeping one interval before its first connection attempt.
WaitForPortStep_SleepFirst(cancelled, port, n) ==
    IF n >= MaxProbes THEN "timeout"
    ELSE IF cancelled THEN "cancelled"
    ELSE IF n = 0 THEN "retry"
    ELSE IF IsPortInUse(port) THEN "ok"
    ELSE "retry"

\* WaitForPort testing the deadline after the attempt instead of before it.
WaitForPortStep_LateDeadline(cancelled, port, n) ==
    IF cancelled THEN "cancelled"
    ELSE IF IsPortInUse(port) THEN "ok"
    ELSE IF n >= MaxProbes THEN "timeout"
    ELSE "retry"

\* One iteration of util.WaitForPort: the deadline test of the loop head, the
\* non-blocking select on ctx.Done(), then one connection attempt; a failed
\* attempt is followed by the sleep of one poll interval, of which the
\* deadline allows MaxProbes.
WaitForPortStep(cancelled, port, n) ==
    IF n >= MaxProbes THEN "timeout"
    ELSE IF cancelled THEN "cancelled"
    ELSE IF IsPortInUse(port) THEN "ok"
    ELSE "retry"

\* The error util.WaitForPort returns for an outcome other than success.
WaitForPortError(outcome, port) ==
    IF outcome = "cancelled"
    THEN Raw("context canceled")
    ELSE Raw("timeout waiting for port " \o IntToStr(port))

\* What util.WaitForPort returns, if it returns, after an iteration.
WaitForPortReturn(outcome, port) ==
    CASE outcome = "ok" -> Ok
      [] outcome = "retry" -> NoResult
      [] OTHER -> Err(WaitForPortError(outcome, port))

\* The record of a call of util.WaitForPort: its port, whether ctx was done
\* when it was called, what each connection attempt found, and what the
\* call returned.
NoProbe ==
    [called |-> FALSE, port |-> 0, ctxAtCall |-> FALSE, obs |-> << >>, res |-> NoResult]

ProbeStart(port) ==
    [called |-> TRUE, port |-> port, ctxAtCall |-> ctxDone, obs |-> << >>, res |-> NoResult]

\* An iteration with outcome ok or retry has made one connection attempt.
ProbeNext(outcome) ==
    [probe EXCEPT !.res = WaitForPortReturn(outcome, probe.port),
                  !.obs = IF outcome \in {"ok", "retry"}
                          THEN Append(@, IsPortInUse(probe.port))
                          ELSE @]

(* ------------------------- credential accessors ----------------------- *)

\* RPCUser returning the default whatever username is set.
RPCUser_AlwaysDefault(h) ==
    "gouser"

\* MoneroDaemon.RPCUser: the rpcUser field after the call, which is the value
\* returned.
RPCUser(h) ==
    IF h.rpcUser = "" THEN "gouser" ELSE h.rpcUser

\* RPCPass generating a password on every call.
RPCPass_Regenerate(h, fresh) ==
    fresh

\* MoneroDaemon.RPCPass: the rpcPass field after the call, which is the value
\* returned; fresh is what util.SecurePassword returns if it is called.
RPCPass(h, fresh) ==
    IF h.rpcPass = "" THEN fresh ELSE h.rpcPass

\* WalletRPC.WalletRPCPass, likewise.
WalletRPCPass(h, fresh) ==
    IF h.rpcPass = "" THEN fresh ELSE h.rpcPass

\* WalletRPC.WalletPass: the walletPass field after the call, which gets its
\* default when it is unset.
WalletPassField(h) ==
    IF h.walletPass = "" THEN "changeme" ELSE h.walletPass

\* WalletRPC.WalletPass: the value returned, which is the rpcPass field.
WalletPass(h) ==
    h.rpcPass

\* The record of the last call of WalletPass: the value returned, and the
\* walletPass and rpcPass fields before the call and rpcPass after it.
NoWpRet ==
    [called |-> FALSE, val |-> "", walletPass |-> "", rpcPass |-> "", rpcAfter |-> ""]

\* The record of the calls of the password accessor of one handle: the first
\* and the last value returned, how often a password was generated, and
\* whether the accessor has been called more than once.
NoPass ==
    [called |-> FALSE, again |-> FALSE, first |-> "", last |-> "", gens |-> 0]

PassCall(c, before, after) ==
    [passRet EXCEPT ![c] = [called |-> TRUE,
                            again |-> passRet[c].called,
                            first |-> IF passRet[c].called THEN passRet[c].first ELSE after,
                            last |-> after,
                            gens |-> passRet[c].gens + (IF before = "" THEN 1 ELSE 0)]]

(* -------------------------------- PID --------------------------------- *)

\* PID reading the Process field without testing the command for nil.
PID_NoNilCheck(h) ==
    IF ~h.cmd THEN "panic"
    ELSE IF h.cmdProcess THEN IntToStr(proc[ComponentWalletRPC].pid)
    ELSE "-1"

\* WalletRPC.PID
PID(h) ==
    IF h.cmd
    THEN IF h.cmdProcess THEN IntToStr(proc[ComponentWalletRPC].pid) ELSE "-1"
    ELSE "-1"

\* The record of the last call of PID: the value returned and the handle's
\* process reference at the call.
NoPidRet ==
    [called |-> FALSE, val |-> "", held |-> FALSE, pid |-> 0]

\* The configuration of the runs that construct no supervisor from it.
DefaultConfig ==
    [MoneroPort |-> 18081, WalletPort |-> 18083, WalletFile |-> "wallet"]

\* rpcPass of a handle constructed by hand: unset, or set explicitly.
ExplicitPasswords ==
    {"", "custom"}

\* errors.GetKind and errors.Is not called yet.
NoKinds ==
    [x |-> KindUnknown, t |-> KindUnknown]
NoIs ==
    [xt |-> FALSE, tx |-> FALSE]

\* The ports a run ever dials: the configured ports of the components the
\* run starts, or the ports handed to util.WaitForPort directly.  No code
\* reads the state of any other port.
PortsInPlay(drv, cfg) ==
    CASE drv = "coordinator" -> {cfg.MoneroPort, cfg.WalletPort} \cap ValidPorts
      [] drv = "daemon"      -> {cfg.MoneroPort} \cap ValidPorts
      [] drv = "prober"      -> ProbePorts \cap ValidPorts
      [] drv = "wallet"      -> {cfg.WalletPort} \cap ValidPorts
      [] OTHER               -> {}

Init ==
    /\ driver \in Drivers
    /\ config \in Configs
    /\ driver \in {"empty", "prober", "wallet", "errors"} => config = DefaultConfig
    /\ driver = "daemon" =>
          /\ config.WalletPort = DefaultConfig.WalletPort
          /\ config.WalletFile = DefaultConfig.WalletFile
    /\ config.WalletFile \notin ExistingFiles \cup {""} =>
          config.MoneroPort = DefaultConfig.MoneroPort
    /\ ctxDone \in (IF driver = "prober" THEN BOOLEAN ELSE {FALSE})
    /\ listening \in [ValidPorts -> {"none", "ext"}]
    /\ \A p \in ValidPorts \ PortsInPlay(driver, config) : listening[p] = "none"
    /\ proc = [c \in Components |-> NoProc]
    /\ \E dp \in ExplicitPasswords, wp \in ExplicitPasswords :
          /\ d = CASE driver = "empty" ->
                         [ZeroDaemon EXCEPT !.exists = TRUE, !.rpcPass = dp]
                   [] driver = "wallet" ->
                         [ZeroDaemon EXCEPT !.exists = TRUE, !.rpcPort = config.MoneroPort,
                                            !.rpcUser = "user", !.rpcPass = "custom"]
                   [] OTHER -> ZeroDaemon
          /\ w = CASE driver = "empty" ->
                         [ZeroWallet EXCEPT !.exists = TRUE, !.rpcPass = wp]
                   [] driver = "wallet" ->
                         [ZeroWallet EXCEPT !.exists = TRUE, !.rpcPort = config.WalletPort,
                                            !.rpcUser = "user", !.rpcPass = "custom",
                                            !.daemon = TRUE]
                   [] OTHER -> ZeroWallet
    /\ pc = IF driver \in {"empty", "wallet"} THEN "ready" ELSE "idle"
    /\ ret = "none"
    /\ probes = 0
    /\ pending = Nil
    /\ curWaiter = FALSE
    /\ done = "empty"
    /\ abandoned = 0
    /\ daemonStart = NoResult
    /\ walletStart = NoResult
    /\ create = NoResult
    /\ sdRes = [c \in Components |-> NoResult]
    /\ mgrShutdown = NoResult
    /\ dPortSeen = FALSE
    /\ wValidated = FALSE
    /\ seenAtStart = [c \in Components |-> "none"]
    /\ pre = [c \in Components |-> NoPre]
    /\ calls = 0
    /\ walletArgs = NoArgs
    /\ dsInvoked = FALSE
    /\ okExit = [c \in Components |-> NoExit]
    /\ probe = NoProbe
    /\ passRet = [c \in Components |-> NoPass]
    /\ pidRet = NoPidRet
    /\ starts = 0
    /\ startCancelled = FALSE
    /\ orphans = 0
    /\ ctxKilled = FALSE
    /\ spc = "idle"
    /\ sRes = NoResult
    /\ sWaiter = FALSE
    /\ sDone = "empty"
    /\ errArgs \in (IF driver = "errors" THEN ArgLists ELSE {<< >>})
    /\ errWraps \in (IF driver = "errors" /\ Documented(errArgs) THEN 0..MaxWraps ELSE {0})
    /\ errTarget \in (IF driver = "errors" /\ Documented(errArgs) THEN Targets ELSE {Nil})
    /\ errVal = Nil
    /\ errKind = NoKinds
    /\ errIs = NoIs
    /\ errText = ""
    /\ daemonArgs = NoDaemonArgs
    /\ wpRet = NoWpRet


(* ----------------------------- environment ---------------------------- *)

\* The port a spawned process of component c tries to bind (its
\* --rpc-bind-port argument).
BindPort(c) ==
    IF c = ComponentMonerod THEN d.rpcPort ELSE w.rpcPort

\* Some other program starts listening on a free port.
ExternalListen(p) ==
    /\ p \in PortsInPlay(driver, config)
    /\ listening[p] = "none"
    /\ listening' = [listening EXCEPT ![p] = "ext"]
    /\ UNCHANGED << driver, config, ctxDone, proc, d, w, pc, ret, probes, pending >>
    /\ UNCHANGED << seqVars, concVars, errVars, credVars >>
    /\ UNCHANGED obsVars
    /\ UNCHANGED << waitVars, resVars, histVars >>

\* The other program stops listening.
ExternalClose(p) ==
    /\ listening[p] = "ext"
    /\ listening' = [listening EXCEPT ![p] = "none"]
    /\ UNCHANGED << driver, config, ctxDone, proc, d, w, pc, ret, probes, pending >>
    /\ UNCHANGED << seqVars, concVars, errVars, credVars >>
    /\ UNCHANGED obsVars
    /\ UNCHANGED << waitVars, resVars, histVars >>

\* A running spawned process binds its RPC port.
ProcBind(c) ==
    /\ proc[c].state = "running"
    /\ BindPort(c) \in ValidPorts
    /\ listening[BindPort(c)] = "none"
    /\ listening' = [listening EXCEPT ![BindPort(c)] = c]
    /\ UNCHANGED << driver, config, ctxDone, proc, d, w, pc, ret, probes, pending >>
    /\ UNCHANGED << seqVars, concVars, errVars, credVars >>
    /\ UNCHANGED obsVars
    /\ UNCHANGED << waitVars, resVars, histVars >>

\* A running spawned process exits (on its own or after an interrupt); it
\* stays a zombie until somebody waits for it.
ProcExit(c) ==
    /\ proc[c].state = "running"
    /\ proc' = [proc EXCEPT ![c].state = "exited"]
    /\ listening' = [p \in ValidPorts |-> IF listening[p] = c THEN "none" ELSE listening[p]]
    /\ UNCHANGED << driver, config, ctxDone, d, w, pc, ret, probes, pending >>
    /\ UNCHANGED << seqVars, concVars, errVars, credVars >>
    /\ UNCHANGED obsVars
    /\ UNCHANGED << waitVars, resVars, histVars >>

\* The process of a command made by exec.CommandContext(ctx, ...) is killed
\* by the os/exec package once ctx is done. Only the direct caller of
\* NewMoneroDaemon passes a context that it cancels after the spawn.
CommandContextKill ==
    /\ driver = "daemon"
    /\ ctxDone
    /\ proc[ComponentMonerod].state = "running"
    /\ proc' = [proc EXCEPT ![ComponentMonerod].state = "exited"]
    /\ listening' = [p \in ValidPorts |->
                        IF listening[p] = ComponentMonerod THEN "none" ELSE listening[p]]
    /\ ctxKilled' = TRUE
    /\ UNCHANGED << driver, config, ctxDone, d, w, pc, ret, probes, pending >>
    /\ UNCHANGED << starts, startCancelled, orphans, concVars, errVars, credVars >>
    /\ UNCHANGED obsVars
    /\ UNCHANGED << waitVars, resVars, histVars >>

(* --------------------------- daemon supervisor ------------------------ *)

\* cmd.Start of a command made by exec.CommandContext(ctx, ...): it returns
\* ctx.Err() without starting a process when ctx is already done, otherwise
\* it starts the process or fails.
SpawnOutcomes(cancelled) ==
    IF cancelled THEN {FALSE} ELSE BOOLEAN

\* A caller invokes NewMoneroDaemon directly.
CallNewMoneroDaemon ==
    /\ driver = "daemon"
    /\ pc = "idle"
    /\ pc' = "d_check"
    /\ UNCHANGED << driver, config, ctxDone, d, w, ret, probes, pending >>
    /\ UNCHANGED << seqVars, concVars, errVars, credVars >>
    /\ UNCHANGED obsVars
    /\ UNCHANGED << envVars, waitVars, resVars, histVars >>

\* NewMoneroDaemon without the attach branch: start is always called.
NewMoneroDaemon_NoAttach ==
    /\ pc = "d_check"
    /\ d' = [ZeroDaemon EXCEPT !.exists = TRUE, !.rpcPort = config.MoneroPort]
    /\ pc' = "d_args"
    /\ seenAtStart' = [seenAtStart EXCEPT ![ComponentMonerod] =
                          IF IsPortInUse(config.MoneroPort) THEN "open" ELSE "free"]
    /\ UNCHANGED << daemonStart, dPortSeen >>
    /\ UNCHANGED << driver, config, ctxDone, w, ret, probes, pending >>
    /\ UNCHANGED << seqVars, concVars, errVars, credVars >>
    /\ UNCHANGED obsVars
    /\ UNCHANGED << envVars, waitVars >>
    /\ UNCHANGED << walletStart, create, sdRes, mgrShutdown >>
    /\ UNCHANGED << wValidated, pre, calls, walletArgs, dsInvoked, okExit >>

\* NewMoneroDaemon up to the call of start: attach when the port is in use.
NewMoneroDaemon ==
    /\ pc = "d_check"
    /\ d' = [ZeroDaemon EXCEPT !.exists = TRUE, !.rpcPort = config.MoneroPort]
    /\ IF IsPortInUse(config.MoneroPort)
       THEN /\ daemonStart' = Ok
            /\ dPortSeen' = TRUE
            /\ seenAtStart' = [seenAtStart EXCEPT ![ComponentMonerod] = "open"]
            /\ pc' = "d_returned"
       ELSE /\ pc' = "d_args"
            /\ seenAtStart' = [seenAtStart EXCEPT ![ComponentMonerod] = "free"]
            /\ UNCHANGED << daemonStart, dPortSeen >>
    /\ UNCHANGED << driver, config, ctxDone, w, ret, probes, pending >>
    /\ UNCHANGED << seqVars, concVars, errVars, credVars >>
    /\ UNCHANGED obsVars
    /\ UNCHANGED << envVars, waitVars >>
    /\ UNCHANGED << walletStart, create, sdRes, mgrShutdown >>
    /\ UNCHANGED << wValidated, pre, calls, walletArgs, dsInvoked, okExit >>

\* NewMoneroDaemon classifying every failure of start as a Network error.
DaemonStartError_Network(err) ==
    E(OpStart, ComponentMonerod, KindNetwork, err)

\* The error NewMoneroDaemon returns when start fails with err.
DaemonStartError(err) ==
    E(OpStart, ComponentMonerod, KindProcess, err)

\* MoneroDaemon.start: the argument list (credential accessors) and the
\* lookup of the executable.
DaemonStartArgs ==
    /\ pc = "d_args"
    /\ \E pass \in Passwords, found \in BOOLEAN :
          /\ d' = [d EXCEPT !.rpcUser = RPCUser(d), !.rpcPass = RPCPass(d, pass)]
          /\ passRet' = PassCall(ComponentMonerod, d.rpcPass, RPCPass(d, pass))
          /\ daemonArgs' = [rpcLogin |-> RPCUser(d) \o ":" \o RPCPass(d, pass)]
          /\ IF found
             THEN /\ pc' = "d_spawn"
                  /\ UNCHANGED daemonStart
             ELSE /\ pc' = "d_returned"
                  /\ daemonStart' = Err(DaemonStartError(
                        E(OpProcessSpawn, ComponentMonerod, KindProcess,
                          Raw("Monero daemon(monerod) not found"))))
    /\ UNCHANGED << driver, config, ctxDone, w, ret, probes, pending >>
    /\ UNCHANGED << seqVars, concVars, errVars, wpRet >>
    /\ UNCHANGED << probe, pidRet >>
    /\ UNCHANGED << envVars, waitVars, histVars >>
    /\ UNCHANGED << walletStart, create, sdRes, mgrShutdown >>

\* MoneroDaemon.start: cmd.Start and the storing of the process reference.
\* No code reads the daemon's process id, so it is left out.
DaemonSpawn ==
    /\ pc = "d_spawn"
    /\ \E ok \in SpawnOutcomes(ctxDone) :
          IF ok
          THEN /\ proc' = [proc EXCEPT ![ComponentMonerod] =
                              [state |-> "running", signals |-> 0,
                               spawns |-> proc[ComponentMonerod].spawns + 1,
                               pid |-> 0]]
               /\ d' = [d EXCEPT !.process = TRUE]
               /\ pc' = "d_wait"
               /\ probes' = 0
               /\ probe' = ProbeStart(d.rpcPort)
               /\ UNCHANGED daemonStart
          ELSE /\ daemonStart' = Err(DaemonStartError(
                     E(OpProcessSpawn, ComponentMonerod, KindProcess,
                       Raw("fork/exec failed"))))
               /\ pc' = "d_returned"
               /\ UNCHANGED << proc, d, probes, probe >>
    /\ UNCHANGED << driver, config, ctxDone, listening, w, ret, pending >>
    /\ UNCHANGED << seqVars, concVars, errVars, credVars >>
    /\ UNCHANGED << passRet, pidRet >>
    /\ UNCHANGED << waitVars, histVars >>
    /\ UNCHANGED << walletStart, create, sdRes, mgrShutdown >>

\* MoneroDaemon.start sending an interrupt to the process it spawned when the
\* readiness wait fails.
DaemonWaitForPort_Interrupt ==
    /\ pc = "d_wait"
    /\ LET outcome == WaitForPortStep(ctxDone, d.rpcPort, probes)
       IN  /\ probe' = ProbeNext(outcome)
           /\ CASE outcome = "ok" ->
                   /\ daemonStart' = Ok
                   /\ dPortSeen' = (dPortSeen \/ IsPortInUse(d.rpcPort))
                   /\ pc' = "d_returned"
                   /\ UNCHANGED << probes, proc >>
             [] outcome = "retry" ->
                   /\ probes' = probes + 1
                   /\ UNCHANGED << daemonStart, dPortSeen, pc, proc >>
             [] OTHER ->
                   /\ daemonStart' = Err(DaemonStartError(
                         E(OpPortBinding, ComponentMonerod, KindNetwork,
                           WaitForPortError(outcome, d.rpcPort))))
                   /\ proc' = [proc EXCEPT ![ComponentMonerod].signals = @ + 1]
                   /\ pc' = "d_returned"
                   /\ UNCHANGED << probes, dPortSeen >>
    /\ UNCHANGED << driver, config, ctxDone, d, w, ret, pending >>
    /\ UNCHANGED << seqVars, concVars, errVars, credVars >>
    /\ UNCHANGED << passRet, pidRet >>
    /\ UNCHANGED << listening, waitVars >>
    /\ UNCHANGED << walletStart, create, sdRes, mgrShutdown >>
    /\ UNCHANGED << wValidated, seenAtStart, pre, calls, walletArgs, dsInvoked, okExit >>

\* MoneroDaemon.start: one iteration of the readiness wait. ctx is the
\* caller's: context.Background() in NewMoneroger, a context with a deadline
\* in TestNewMoneroDaemon.
DaemonWaitForPort ==
    /\ pc = "d_wait"
    /\ LET outcome == WaitForPortStep(ctxDone, d.rpcPort, probes)
       IN  /\ probe' = ProbeNext(outcome)
           /\ CASE outcome = "ok" ->
                   /\ daemonStart' = Ok
                   /\ dPortSeen' = (dPortSeen \/ IsPortInUse(d.rpcPort))
                   /\ pc' = "d_returned"
                   /\ UNCHANGED probes
             [] outcome = "retry" ->
                   /\ probes' = probes + 1
                   /\ UNCHANGED << daemonStart, dPortSeen, pc >>
             [] OTHER ->
                   /\ daemonStart' = Err(DaemonStartError(
                         E(OpPortBinding, ComponentMonerod, KindNetwork,
                           WaitForPortError(outcome, d.rpcPort))))
                   /\ pc' = "d_returned"
                   /\ UNCHANGED << probes, dPortSeen >>
    /\ UNCHANGED << driver, config, ctxDone, d, w, ret, pending >>
    /\ UNCHANGED << seqVars, concVars, errVars, credVars >>
    /\ UNCHANGED << passRet, pidRet >>
    /\ UNCHANGED << envVars, waitVars >>
    /\ UNCHANGED << walletStart, create, sdRes, mgrShutdown >>
    /\ UNCHANGED << wValidated, seenAtStart, pre, calls, walletArgs, dsInvoked, okExit >>

\* The direct caller of NewMoneroDaemon receives the handle or the error.
NewMoneroDaemonReturned ==
    /\ driver = "daemon"
    /\ pc = "d_returned"
    /\ pc' = IF daemonStart.status = "ok" THEN "ready" ELSE "failed"
    /\ UNCHANGED << driver, config, ctxDone, d, w, ret, probes, pending >>
    /\ UNCHANGED << seqVars, concVars, errVars, credVars >>
    /\ UNCHANGED obsVars
    /\ UNCHANGED << envVars, waitVars, resVars, histVars >>

\* os.Process.Signal fails once the process has been waited for.
SignalFails(c) ==
    proc[c].state = "reaped"

\* MoneroDaemon.Shutdown, and the return of its result by
\* Moneroger.Shutdown when the coordinator made the call.
DaemonShutdown ==
    /\ pc = "ds_call"
    /\ pre' = [pre EXCEPT ![ComponentMonerod] = Snapshot(ComponentMonerod)]
    /\ dsInvoked' = TRUE
    /\ LET res == IF d.process /\ SignalFails(ComponentMonerod)
                  THEN Err(Errorf("failed to send interrupt to monerod",
                                  Raw("os: process already finished")))
                  ELSE Ok
       IN  /\ sdRes' = [sdRes EXCEPT ![ComponentMonerod] = res]
           /\ mgrShutdown' = IF ret = "mgr" THEN res ELSE mgrShutdown
           /\ okExit' = IF /\ ~okExit[ComponentMonerod].seen
                            /\ res.status = "ok"
                            /\ d.process
                            /\ proc[ComponentMonerod].state # "running"
                         THEN [okExit EXCEPT ![ComponentMonerod] =
                                  [seen |-> TRUE, sigs |-> proc[ComponentMonerod].signals + 1]]
                         ELSE okExit
    /\ proc' = IF d.process /\ ~SignalFails(ComponentMonerod)
               THEN [proc EXCEPT ![ComponentMonerod].signals = @ + 1]
               ELSE proc
    /\ pc' = "ready"
    /\ ret' = "none"
    /\ UNCHANGED << driver, config, ctxDone, listening, d, w, probes, pending >>
    /\ UNCHANGED << seqVars, concVars, errVars, credVars >>
    /\ UNCHANGED obsVars
    /\ UNCHANGED << waitVars >>
    /\ UNCHANGED << daemonStart, walletStart, create >>
    /\ UNCHANGED << dPortSeen, wValidated, seenAtStart, calls, walletArgs >>

\* A caller invokes MoneroDaemon.Shutdown on a handle it holds.
CallDaemonShutdown ==
    /\ driver \in {"daemon", "empty"}
    /\ pc = "ready"
    /\ calls < MaxShutdownCalls
    /\ calls' = calls + 1
    /\ pc' = "ds_call"
    /\ ret' = "direct"
    /\ UNCHANGED << driver, config, ctxDone, d, w, probes, pending >>
    /\ UNCHANGED << seqVars, concVars, errVars, credVars >>
    /\ UNCHANGED obsVars
    /\ UNCHANGED << envVars, waitVars, resVars >>
    /\ UNCHANGED << dPortSeen, wValidated, seenAtStart, pre, walletArgs, dsInvoked, okExit >>


(* --------------------------- wallet supervisor ------------------------ *)

\* validateConfig without the test of the wallet file path.
validateConfig_NoPathCheck(cfg) ==
    IF cfg.WalletPort <= 0
    THEN E(opValidateConfig, ComponentWalletRPC, KindConfig,
           Raw("invalid wallet RPC port: " \o IntToStr(cfg.WalletPort)))
    ELSE Nil

\* validateConfig: nil or the Config-kind error.
validateConfig(cfg) ==
    IF cfg.WalletFile = ""
    THEN E(opValidateConfig, ComponentWalletRPC, KindConfig,
           Raw("wallet file path cannot be empty"))
    ELSE IF cfg.WalletPort <= 0
    THEN E(opValidateConfig, ComponentWalletRPC, KindConfig,
           Raw("invalid wallet RPC port: " \o IntToStr(cfg.WalletPort)))
    ELSE Nil

\* NewWalletRPC up to the call of Start: validation and construction.
NewWalletRPC ==
    /\ pc = "w_validate"
    /\ wValidated' = TRUE
    /\ IF validateConfig(config) # Nil
       THEN /\ walletStart' = Err(validateConfig(config))
            /\ pc' = "w_returned"
            /\ UNCHANGED w
       ELSE /\ w' = [ZeroWallet EXCEPT !.exists = TRUE, !.rpcPort = config.WalletPort,
                                       !.daemon = TRUE]
            /\ pc' = "w_check"
            /\ UNCHANGED walletStart
    /\ UNCHANGED << driver, config, ctxDone, d, ret, probes, pending >>
    /\ UNCHANGED << seqVars, concVars, errVars, credVars >>
    /\ UNCHANGED obsVars
    /\ UNCHANGED << envVars, waitVars >>
    /\ UNCHANGED << daemonStart, create, sdRes, mgrShutdown >>
    /\ UNCHANGED << dPortSeen, seenAtStart, pre, calls, walletArgs, dsInvoked, okExit >>

\* WalletRPC.Start attaching, as NewMoneroDaemon does, when the port is in
\* use.
WalletStartPortCheck_Attach ==
    /\ pc = "w_check"
    /\ IF IsPortInUse(w.rpcPort)
       THEN /\ walletStart' = Ok
            /\ pc' = "w_returned"
            /\ seenAtStart' = [seenAtStart EXCEPT ![ComponentWalletRPC] = "open"]
       ELSE /\ pc' = "w_args"
            /\ seenAtStart' = [seenAtStart EXCEPT ![ComponentWalletRPC] = "free"]
            /\ UNCHANGED walletStart
    /\ UNCHANGED << driver, config, ctxDone, d, w, ret, probes, pending >>
    /\ UNCHANGED << seqVars, concVars, errVars, credVars >>
    /\ UNCHANGED obsVars
    /\ UNCHANGED << envVars, waitVars >>
    /\ UNCHANGED << daemonStart, create, sdRes, mgrShutdown >>
    /\ UNCHANGED << dPortSeen, wValidated, pre, calls, walletArgs, dsInvoked, okExit >>

\* WalletRPC.Start: the port must not be in use.
WalletStartPortCheck ==
    /\ pc = "w_check"
    /\ IF IsPortInUse(w.rpcPort)
       THEN /\ walletStart' = Err(E(opStart, ComponentWalletRPC, KindNetwork,
                                    Raw("port " \o IntToStr(w.rpcPort) \o " is already in use")))
            /\ pc' = "w_returned"
            /\ seenAtStart' = [seenAtStart EXCEPT ![ComponentWalletRPC] = "open"]
       ELSE /\ pc' = "w_args"
            /\ seenAtStart' = [seenAtStart EXCEPT ![ComponentWalletRPC] = "free"]
            /\ UNCHANGED walletStart
    /\ UNCHANGED << driver, config, ctxDone, d, w, ret, probes, pending >>
    /\ UNCHANGED << seqVars, concVars, errVars, credVars >>
    /\ UNCHANGED obsVars
    /\ UNCHANGED << envVars, waitVars >>
    /\ UNCHANGED << daemonStart, create, sdRes, mgrShutdown >>
    /\ UNCHANGED << dPortSeen, wValidated, pre, calls, walletArgs, dsInvoked, okExit >>

\* The daemon address built from the default daemon port.
DaemonAddr_DefaultPort(daemon) ==
    "http://localhost:" \o IntToStr(18081)

\* The --daemon-address argument of the wallet process.
DaemonAddr(daemon) ==
    "http://localhost:" \o IntToStr(daemon.rpcPort)

\* The --daemon-login argument built from the wallet's own RPC credentials.
DaemonLogin_OwnCredentials(daemon, wallet) ==
    wallet.rpcUser \o ":" \o wallet.rpcPass

\* The --daemon-login argument of the wallet process: "%s:%s" of what the
\* daemon handle's RPCUser and RPCPass returned.
DaemonLogin(daemon, wallet) ==
    daemon.rpcUser \o ":" \o daemon.rpcPass

\* WalletRPC.Start: the argument list (daemon address, credential accessors
\* of the daemon and of the wallet) and the lookup of the executable.
WalletStartArgs ==
    /\ pc = "w_args"
    /\ \E dpass \in Passwords, wpass \in Passwords, found \in BOOLEAN :
          LET nd == [d EXCEPT !.rpcUser = RPCUser(d), !.rpcPass = RPCPass(d, dpass)]
              nw == [w EXCEPT !.rpcUser = IF w.rpcUser = "" THEN "gouser" ELSE w.rpcUser,
                              !.rpcPass = WalletRPCPass(w, wpass),
                              !.walletPass = WalletPassField(w)]
          IN  /\ d' = nd
              /\ w' = nw
              /\ passRet' = [passRet EXCEPT
                    ![ComponentMonerod] =
                        PassCall(ComponentMonerod, d.rpcPass, nd.rpcPass)[ComponentMonerod],
                    ![ComponentWalletRPC] =
                        PassCall(ComponentWalletRPC, w.rpcPass, nw.rpcPass)[ComponentWalletRPC]]
              /\ walletArgs' = [daemonAddress |-> DaemonAddr(d),
                                daemonLogin |-> DaemonLogin(nd, nw),
                                rpcLogin |-> nw.rpcUser \o ":" \o nw.rpcPass,
                                password |-> WalletPass(nw)]
              /\ IF found
                 THEN /\ pc' = "w_spawn"
                      /\ UNCHANGED walletStart
                 ELSE /\ pc' = "w_returned"
                      /\ walletStart' = Err(E(opStart, ComponentWalletRPC, KindProcess,
                            Errorf("failed to start wallet-rpc process",
                                   Raw("Monero wallet RPC(monero-wallet-rpc) not found"))))
    /\ UNCHANGED << driver, config, ctxDone, ret, probes, pending >>
    /\ UNCHANGED << seqVars, concVars, errVars, credVars >>
    /\ UNCHANGED << probe, pidRet >>
    /\ UNCHANGED << envVars, waitVars >>
    /\ UNCHANGED << daemonStart, create, sdRes, mgrShutdown >>
    /\ UNCHANGED << dPortSeen, wValidated, seenAtStart, pre, calls, dsInvoked, okExit >>

\* WalletRPC.Start: cmd.Start and the storing of the command. A process
\* spawned earlier that is still alive keeps running once w.cmd is replaced.
WalletSpawn ==
    /\ pc = "w_spawn"
    /\ \E ok \in SpawnOutcomes(ctxDone),
          pid \in (IF driver = "wallet" THEN {CHOOSE p \in Pids : TRUE} ELSE Pids) :
          IF ok
          THEN /\ proc' = [proc EXCEPT ![ComponentWalletRPC] =
                              [state |-> "running", signals |-> 0,
                               spawns |-> proc[ComponentWalletRPC].spawns + 1,
                               pid |-> pid]]
               /\ orphans' = IF proc[ComponentWalletRPC].state = "running"
                              THEN orphans + 1 ELSE orphans
               /\ w' = [w EXCEPT !.cmd = TRUE, !.cmdProcess = TRUE]
               /\ pc' = "w_wait"
               /\ probes' = 0
               /\ probe' = ProbeStart(w.rpcPort)
               /\ UNCHANGED walletStart
          ELSE /\ walletStart' = Err(E(opStart, ComponentWalletRPC, KindProcess,
                     Errorf("failed to start wallet-rpc process", Raw("fork/exec failed"))))
               /\ pc' = "w_returned"
               /\ UNCHANGED << proc, w, probes, probe, orphans >>
    /\ UNCHANGED << driver, config, ctxDone, listening, d, ret, pending >>
    /\ UNCHANGED << starts, startCancelled, ctxKilled, concVars, errVars, credVars >>
    /\ UNCHANGED << passRet, pidRet >>
    /\ UNCHANGED << waitVars, histVars >>
    /\ UNCHANGED << daemonStart, create, sdRes, mgrShutdown >>

\* The bind error without the error WaitForPort returned.
WalletBindError_NoCause(port, err) ==
    Raw("wallet-rpc failed to bind to port " \o IntToStr(port))

\* fmt.Errorf("wallet-rpc failed to bind to port %d: %w", port, err)
WalletBindError(port, err) ==
    Errorf("wallet-rpc failed to bind to port " \o IntToStr(port), err)

\* WalletRPC.Start returning the Timeout error of a failed readiness wait
\* without calling Shutdown.
WalletWaitForPort_NoCleanup ==
    /\ pc = "w_wait"
    /\ LET outcome == WaitForPortStep(ctxDone, w.rpcPort, probes)
       IN  /\ probe' = ProbeNext(outcome)
           /\ CASE outcome = "ok" ->
                   /\ pc' = "w_health"
                   /\ UNCHANGED << probes, walletStart >>
             [] outcome = "retry" ->
                   /\ probes' = probes + 1
                   /\ UNCHANGED << pc, walletStart >>
             [] OTHER ->
                   /\ walletStart' = Err(E(opStart, ComponentWalletRPC, KindTimeout,
                                           WalletBindError(w.rpcPort,
                                                  WaitForPortError(outcome, w.rpcPort))))
                   /\ pc' = "w_returned"
                   /\ UNCHANGED probes
    /\ UNCHANGED << driver, config, ctxDone, d, w, ret, pending >>
    /\ UNCHANGED << seqVars, concVars, errVars, credVars >>
    /\ UNCHANGED << passRet, pidRet >>
    /\ UNCHANGED << envVars, waitVars >>
    /\ UNCHANGED << daemonStart, create, sdRes, mgrShutdown >>
    /\ UNCHANGED histVars

\* WalletRPC.Start: one iteration of the readiness wait; on failure the
\* wallet's own Shutdown is called before the Timeout error is returned.
WalletWaitForPort ==
    /\ pc = "w_wait"
    /\ LET outcome == WaitForPortStep(ctxDone, w.rpcPort, probes)
       IN  /\ probe' = ProbeNext(outcome)
           /\ CASE outcome = "ok" ->
                   /\ pc' = "w_health"
                   /\ UNCHANGED << probes, pending, ret, pre >>
             [] outcome = "retry" ->
                   /\ probes' = probes + 1
                   /\ UNCHANGED << pc, pending, ret, pre >>
             [] OTHER ->
                   /\ pending' = E(opStart, ComponentWalletRPC, KindTimeout,
                                   WalletBindError(w.rpcPort,
                                          WaitForPortError(outcome, w.rpcPort)))
                   /\ pc' = "ws_check"
                   /\ ret' = "start"
                   /\ pre' = [pre EXCEPT ![ComponentWalletRPC] = Snapshot(ComponentWalletRPC)]
                   /\ UNCHANGED probes
    /\ UNCHANGED << driver, config, ctxDone, d, w >>
    /\ UNCHANGED << seqVars, concVars, errVars, credVars >>
    /\ UNCHANGED << passRet, pidRet >>
    /\ UNCHANGED << envVars, waitVars, resVars >>
    /\ UNCHANGED << dPortSeen, wValidated, seenAtStart, calls, walletArgs, dsInvoked, okExit >>

\* WalletRPC.Start: checkHealth; on failure the wallet's own Shutdown is
\* called before the health error is returned.
WalletCheckHealth ==
    /\ pc = "w_health"
    /\ IF IsPortInUse(w.rpcPort)
       THEN /\ walletStart' = Ok
            /\ pc' = "w_returned"
            /\ UNCHANGED << pending, ret, pre >>
       ELSE /\ pending' = E(opCheckHealth, ComponentWalletRPC, KindNetwork,
                            Raw("wallet-rpc is not responding on port "
                                \o IntToStr(w.rpcPort)))
            /\ pc' = "ws_check"
            /\ ret' = "start"
            /\ pre' = [pre EXCEPT ![ComponentWalletRPC] = Snapshot(ComponentWalletRPC)]
            /\ UNCHANGED walletStart
    /\ UNCHANGED << driver, config, ctxDone, d, w, probes >>
    /\ UNCHANGED << seqVars, concVars, errVars, credVars >>
    /\ UNCHANGED obsVars
    /\ UNCHANGED << envVars, waitVars >>
    /\ UNCHANGED << daemonStart, create, sdRes, mgrShutdown >>
    /\ UNCHANGED << dPortSeen, wValidated, seenAtStart, calls, walletArgs, dsInvoked, okExit >>

\* WalletRPC.Shutdown returns res to whoever called it: Start (which then
\* returns its pending error), Moneroger.Shutdown, or a direct caller.
WalletShutdownReturn(res) ==
    /\ sdRes' = [sdRes EXCEPT ![ComponentWalletRPC] = res]
    /\ ret' = "none"
    /\ pending' = Nil
    /\ CASE ret = "start" ->
               /\ walletStart' = Err(pending)
               /\ pc' = "w_returned"
         [] ret = "mgr" ->
               /\ pc' = "m_ws_returned"
               /\ UNCHANGED walletStart
         [] OTHER ->
               /\ pc' = "ready"
               /\ UNCHANGED walletStart

\* WalletRPC.Shutdown: the test of w.cmd.Process. Reading the Process field
\* of a nil w.cmd is a nil pointer dereference, which panics.
WalletShutdownCheck ==
    /\ pc = "ws_check"
    /\ IF ~w.cmd
       THEN /\ sdRes' = [sdRes EXCEPT ![ComponentWalletRPC] = Panic]
            /\ pc' = "panicked"
            /\ UNCHANGED << ret, pending, walletStart >>
       ELSE IF ~w.cmdProcess
       THEN WalletShutdownReturn(Ok)
       ELSE /\ pc' = "ws_signal"
            /\ UNCHANGED << ret, pending, walletStart, sdRes >>
    /\ UNCHANGED << driver, config, ctxDone, d, w, probes >>
    /\ UNCHANGED << seqVars, concVars, errVars, credVars >>
    /\ UNCHANGED obsVars
    /\ UNCHANGED << envVars, waitVars, histVars >>
    /\ UNCHANGED << daemonStart, create, mgrShutdown >>

\* WalletRPC.Shutdown: the interrupt signal and the start of the goroutine
\* that waits for the process.
WalletShutdownSignal ==
    /\ pc = "ws_signal"
    /\ IF ~w.cmd
       THEN /\ sdRes' = [sdRes EXCEPT ![ComponentWalletRPC] = Panic]
            /\ pc' = "panicked"
            /\ UNCHANGED << ret, pending, walletStart, proc, curWaiter, done >>
       ELSE IF SignalFails(ComponentWalletRPC)
       THEN /\ WalletShutdownReturn(Err(E(opShutdown, ComponentWalletRPC, KindProcess,
                   Errorf("failed to send interrupt signal",
                          Raw("os: process already finished")))))
            /\ UNCHANGED << proc, curWaiter, done >>
       ELSE /\ proc' = [proc EXCEPT ![ComponentWalletRPC].signals = @ + 1]
            /\ curWaiter' = TRUE
            /\ done' = "empty"
            /\ pc' = "ws_select"
            /\ UNCHANGED << ret, pending, walletStart, sdRes >>
    /\ UNCHANGED << driver, config, ctxDone, listening, d, w, probes, abandoned >>
    /\ UNCHANGED << seqVars, concVars, errVars, credVars >>
    /\ UNCHANGED obsVars
    /\ UNCHANGED << histVars >>
    /\ UNCHANGED << daemonStart, create, mgrShutdown >>

\* The capacity of the done channel: make(chan error, 1).
DoneCapacity ==
    1

\* A send on a done channel made without a buffer: it goes through only
\* when a receiver is waiting.
CanSend_Unbuffered(buffered, receiving) ==
    receiving

\* Whether the send "done <- err" goes through at once: there is room in the
\* buffer of the channel, or a receiver is waiting in the select.
CanSend(buffered, receiving) ==
    buffered < DoneCapacity \/ receiving

\* The goroutine of the current Shutdown call: Process.Wait returns once the
\* process has exited, and its error is sent on the done channel. Waiting for
\* a process another goroutine has already waited for fails.
WalletWaitGoroutine ==
    /\ curWaiter
    /\ proc[ComponentWalletRPC].state \in {"exited", "reaped"}
    /\ CanSend(IF done = "empty" THEN 0 ELSE 1, pc = "ws_select")
    /\ done' = IF proc[ComponentWalletRPC].state = "exited" THEN "nil" ELSE "err"
    /\ proc' = [proc EXCEPT ![ComponentWalletRPC].state = "reaped"]
    /\ curWaiter' = FALSE
    /\ UNCHANGED << driver, config, ctxDone, listening, d, w, pc, ret, probes, pending, abandoned >>
    /\ UNCHANGED << seqVars, concVars, errVars, credVars >>
    /\ UNCHANGED obsVars
    /\ UNCHANGED << resVars, histVars >>

\* A goroutine left behind by a Shutdown call that timed out: its result,
\* the only value ever sent on its channel, goes to a channel nobody reads.
AbandonedWaitGoroutine ==
    /\ abandoned > 0
    /\ proc[ComponentWalletRPC].state \in {"exited", "reaped"}
    /\ CanSend(0, FALSE)
    /\ proc' = [proc EXCEPT ![ComponentWalletRPC].state = "reaped"]
    /\ abandoned' = abandoned - 1
    /\ UNCHANGED << driver, config, ctxDone, listening, d, w, pc, ret, probes, pending >>
    /\ UNCHANGED << seqVars, concVars, errVars, credVars >>
    /\ UNCHANGED obsVars
    /\ UNCHANGED << curWaiter, done >>
    /\ UNCHANGED << resVars, histVars >>

\* WalletRPC.Shutdown killing the process and dropping its reference when the
\* deadline has passed.
WalletShutdownTimeout_Kill ==
    /\ pc = "ws_select"
    /\ WalletShutdownReturn(Err(E(opShutdown, ComponentWalletRPC, KindTimeout,
                                  Raw("shutdown timed out"))))
    /\ abandoned' = IF curWaiter THEN abandoned + 1 ELSE abandoned
    /\ curWaiter' = FALSE
    /\ done' = "empty"
    /\ proc' = [proc EXCEPT ![ComponentWalletRPC].state =
                    IF @ = "running" THEN "exited" ELSE @]
    /\ listening' = [p \in ValidPorts |->
                        IF listening[p] = ComponentWalletRPC THEN "none" ELSE listening[p]]
    /\ w' = [w EXCEPT !.cmdProcess = FALSE, !.cmd = FALSE]
    /\ UNCHANGED << driver, config, ctxDone, d, probes >>
    /\ UNCHANGED << seqVars, concVars, errVars, credVars >>
    /\ UNCHANGED obsVars
    /\ UNCHANGED << histVars >>
    /\ UNCHANGED << daemonStart, create, mgrShutdown >>

\* WalletRPC.Shutdown selecting on the caller's context instead of the one
\* derived from it with the 10 second timeout.
WalletShutdownTimeout_CallerDeadline ==
    /\ pc = "ws_select"
    /\ ctxDone
    /\ WalletShutdownReturn(Err(E(opShutdown, ComponentWalletRPC, KindTimeout,
                                  Raw("shutdown timed out"))))
    /\ abandoned' = IF curWaiter THEN abandoned + 1 ELSE abandoned
    /\ curWaiter' = FALSE
    /\ done' = "empty"
    /\ UNCHANGED << driver, config, ctxDone, d, w, probes >>
    /\ UNCHANGED << seqVars, concVars, errVars, credVars >>
    /\ UNCHANGED obsVars
    /\ UNCHANGED << envVars, histVars >>
    /\ UNCHANGED << daemonStart, create, mgrShutdown >>

\* WalletRPC.Shutdown: the select takes ctx.Done(), the 10 second deadline
\* (or the caller's) having passed.
WalletShutdownTimeout ==
    /\ pc = "ws_select"
    /\ WalletShutdownReturn(Err(E(opShutdown, ComponentWalletRPC, KindTimeout,
                                  Raw("shutdown timed out"))))
    /\ abandoned' = IF curWaiter THEN abandoned + 1 ELSE abandoned
    /\ curWaiter' = FALSE
    /\ done' = "empty"
    /\ UNCHANGED << driver, config, ctxDone, d, w, probes >>
    /\ UNCHANGED << seqVars, concVars, errVars, credVars >>
    /\ UNCHANGED obsVars
    /\ UNCHANGED << envVars, histVars >>
    /\ UNCHANGED << daemonStart, create, mgrShutdown >>

\* WalletRPC.Shutdown: the select takes the result of the wait; on a nil
\* result the process reference and the command are cleared.
WalletShutdownDone ==
    /\ pc = "ws_select"
    /\ done # "empty"
    /\ IF done = "nil" /\ ~w.cmd
       THEN /\ sdRes' = [sdRes EXCEPT ![ComponentWalletRPC] = Panic]
            /\ pc' = "panicked"
            /\ UNCHANGED << ret, pending, walletStart, w, okExit >>
       ELSE IF done = "err"
       THEN /\ WalletShutdownReturn(Err(E(opShutdown, ComponentWalletRPC, KindProcess,
                   Errorf("error during shutdown", Raw("wait: no child processes")))))
            /\ UNCHANGED << w, okExit >>
       ELSE /\ w' = [w EXCEPT !.cmdProcess = FALSE, !.cmd = FALSE]
            /\ okExit' = [okExit EXCEPT ![ComponentWalletRPC] =
                             [seen |-> TRUE, sigs |-> proc[ComponentWalletRPC].signals]]
            /\ WalletShutdownReturn(Ok)
    /\ done' = "empty"
    /\ UNCHANGED << driver, config, ctxDone, d, probes, curWaiter, abandoned >>
    /\ UNCHANGED << seqVars, concVars, errVars, credVars >>
    /\ UNCHANGED obsVars
    /\ UNCHANGED << envVars >>
    /\ UNCHANGED << daemonStart, create, mgrShutdown >>
    /\ UNCHANGED << dPortSeen, wValidated, seenAtStart, pre, calls, walletArgs, dsInvoked >>

\* A caller invokes WalletRPC.Shutdown on a handle it constructed.
CallWalletShutdown ==
    /\ driver \in {"empty", "wallet"}
    /\ pc = "ready"
    /\ spc = "idle"
    /\ calls < MaxShutdownCalls
    /\ calls' = calls + 1
    /\ ctxDone' = FALSE
    /\ pre' = [pre EXCEPT ![ComponentWalletRPC] = Snapshot(ComponentWalletRPC)]
    /\ sdRes' = [sdRes EXCEPT ![ComponentWalletRPC] = NoResult]
    /\ pc' = "ws_check"
    /\ ret' = "direct"
    /\ UNCHANGED << driver, config, d, w, probes, pending >>
    /\ UNCHANGED << seqVars, concVars, errVars, credVars >>
    /\ UNCHANGED obsVars
    /\ UNCHANGED << envVars, waitVars >>
    /\ UNCHANGED << daemonStart, walletStart, create, mgrShutdown >>
    /\ UNCHANGED << dPortSeen, wValidated, seenAtStart, walletArgs, dsInvoked, okExit >>

(* ------------------------------ coordinator --------------------------- *)

\* NewMoneroger: ctx := context.Background() and the call of NewMoneroDaemon.
NewMoneroger ==
    /\ driver = "coordinator"
    /\ pc = "idle"
    /\ pc' = "d_check"
    /\ UNCHANGED << driver, config, ctxDone, d, w, ret, probes, pending >>
    /\ UNCHANGED << seqVars, concVars, errVars, credVars >>
    /\ UNCHANGED obsVars
    /\ UNCHANGED << envVars, waitVars, resVars, histVars >>

\* NewMoneroger wrapping the daemon's error before returning it.
NewMonerogerDaemonReturned_Rewrap ==
    /\ driver = "coordinator"
    /\ pc = "d_returned"
    /\ IF daemonStart.status = "err"
       THEN /\ create' = Err(E(OpStart, ComponentMonerod, KindProcess, daemonStart.err))
            /\ pc' = "failed"
       ELSE /\ pc' = "w_validate"
            /\ UNCHANGED create
    /\ UNCHANGED << driver, config, ctxDone, d, w, ret, probes, pending >>
    /\ UNCHANGED << seqVars, concVars, errVars, credVars >>
    /\ UNCHANGED obsVars
    /\ UNCHANGED << envVars, waitVars, histVars >>
    /\ UNCHANGED << daemonStart, walletStart, sdRes, mgrShutdown >>

\* NewMoneroger: the daemon start has returned; its error is returned as it
\* is, otherwise NewWalletRPC is called.
NewMonerogerDaemonReturned ==
    /\ driver = "coordinator"
    /\ pc = "d_returned"
    /\ IF daemonStart.status = "err"
       THEN /\ create' = daemonStart
            /\ pc' = "failed"
       ELSE /\ pc' = "w_validate"
            /\ UNCHANGED create
    /\ UNCHANGED << driver, config, ctxDone, d, w, ret, probes, pending >>
    /\ UNCHANGED << seqVars, concVars, errVars, credVars >>
    /\ UNCHANGED obsVars
    /\ UNCHANGED << envVars, waitVars, histVars >>
    /\ UNCHANGED << daemonStart, walletStart, sdRes, mgrShutdown >>

\* NewMoneroger rolling the daemon back (interrupting it) when the wallet
\* start fails.
NewMonerogerWalletReturned_Rollback ==
    /\ driver = "coordinator"
    /\ pc = "w_returned"
    /\ IF walletStart.status = "err"
       THEN /\ create' = walletStart
            /\ pc' = "failed"
            /\ proc' = IF d.process /\ ~SignalFails(ComponentMonerod)
                       THEN [proc EXCEPT ![ComponentMonerod].signals = @ + 1]
                       ELSE proc
       ELSE /\ create' = Ok
            /\ pc' = "ready"
            /\ UNCHANGED proc
    /\ UNCHANGED << driver, config, ctxDone, listening, d, w, ret, probes, pending >>
    /\ UNCHANGED << seqVars, concVars, errVars, credVars >>
    /\ UNCHANGED obsVars
    /\ UNCHANGED << waitVars, histVars >>
    /\ UNCHANGED << daemonStart, walletStart, sdRes, mgrShutdown >>

\* NewMoneroger: the wallet start has returned; its error is returned as it
\* is, otherwise the manager holding both supervisors.
NewMonerogerWalletReturned ==
    /\ driver = "coordinator"
    /\ pc = "w_returned"
    /\ IF walletStart.status = "err"
       THEN /\ create' = walletStart
            /\ pc' = "failed"
       ELSE /\ create' = Ok
            /\ pc' = "ready"
    /\ UNCHANGED << driver, config, ctxDone, d, w, ret, probes, pending >>
    /\ UNCHANGED << seqVars, concVars, errVars, credVars >>
    /\ UNCHANGED obsVars
    /\ UNCHANGED << envVars, waitVars, histVars >>
    /\ UNCHANGED << daemonStart, walletStart, sdRes, mgrShutdown >>

\* Moneroger.Shutdown: the call of the wallet supervisor's Shutdown.
MonerogerShutdown ==
    /\ driver = "coordinator"
    /\ pc = "ready"
    /\ calls < MaxShutdownCalls
    /\ calls' = calls + 1
    /\ mgrShutdown' = NoResult
    /\ sdRes' = [c \in Components |-> NoResult]
    /\ dsInvoked' = FALSE
    /\ pre' = [pre EXCEPT ![ComponentWalletRPC] = Snapshot(ComponentWalletRPC),
                          ![ComponentMonerod] = Snapshot(ComponentMonerod)]
    /\ pc' = "ws_check"
    /\ ret' = "mgr"
    /\ UNCHANGED << driver, config, ctxDone, d, w, probes, pending >>
    /\ UNCHANGED << seqVars, concVars, errVars, credVars >>
    /\ UNCHANGED obsVars
    /\ UNCHANGED << envVars, waitVars >>
    /\ UNCHANGED << daemonStart, walletStart, create >>
    /\ UNCHANGED << dPortSeen, wValidated, seenAtStart, walletArgs, okExit >>

\* Moneroger.Shutdown stopping the daemon whatever the wallet's Shutdown
\* returned.
MonerogerShutdownWalletReturned_BestEffort ==
    /\ pc = "m_ws_returned"
    /\ pc' = "ds_call"
    /\ ret' = "mgr"
    /\ UNCHANGED mgrShutdown
    /\ UNCHANGED << driver, config, ctxDone, d, w, probes, pending >>
    /\ UNCHANGED << seqVars, concVars, errVars, credVars >>
    /\ UNCHANGED obsVars
    /\ UNCHANGED << envVars, waitVars, histVars >>
    /\ UNCHANGED << daemonStart, walletStart, create, sdRes >>

\* Moneroger.Shutdown returning at once only for errors other than a timeout.
MonerogerShutdownWalletReturned_TimeoutContinues ==
    /\ pc = "m_ws_returned"
    /\ IF /\ sdRes[ComponentWalletRPC].status = "err"
          /\ GetKind(sdRes[ComponentWalletRPC].err) # KindTimeout
       THEN /\ mgrShutdown' = sdRes[ComponentWalletRPC]
            /\ pc' = "ready"
            /\ ret' = "none"
       ELSE /\ pc' = "ds_call"
            /\ ret' = "mgr"
            /\ UNCHANGED mgrShutdown
    /\ UNCHANGED << driver, config, ctxDone, d, w, probes, pending >>
    /\ UNCHANGED << seqVars, concVars, errVars, credVars >>
    /\ UNCHANGED obsVars
    /\ UNCHANGED << envVars, waitVars, histVars >>
    /\ UNCHANGED << daemonStart, walletStart, create, sdRes >>

\* Moneroger.Shutdown: the wallet's Shutdown has returned; its error is
\* returned at once, otherwise the daemon supervisor's Shutdown is called.
MonerogerShutdownWalletReturned ==
    /\ pc = "m_ws_returned"
    /\ IF sdRes[ComponentWalletRPC].status = "err"
       THEN /\ mgrShutdown' = sdRes[ComponentWalletRPC]
            /\ pc' = "ready"
            /\ ret' = "none"
       ELSE /\ pc' = "ds_call"
            /\ ret' = "mgr"
            /\ UNCHANGED mgrShutdown
    /\ UNCHANGED << driver, config, ctxDone, d, w, probes, pending >>
    /\ UNCHANGED << seqVars, concVars, errVars, credVars >>
    /\ UNCHANGED obsVars
    /\ UNCHANGED << envVars, waitVars, histVars >>
    /\ UNCHANGED << daemonStart, walletStart, create, sdRes >>

(* ---------------------------- direct callers -------------------------- *)

\* A caller invokes util.WaitForPort(ctx, port).
CallWaitForPort ==
    /\ driver = "prober"
    /\ pc = "idle"
    /\ \E port \in ProbePorts : probe' = ProbeStart(port)
    /\ probes' = 0
    /\ pc' = "p_wait"
    /\ UNCHANGED << driver, config, ctxDone, d, w, ret, pending >>
    /\ UNCHANGED << seqVars, concVars, errVars, credVars >>
    /\ UNCHANGED << passRet, pidRet >>
    /\ UNCHANGED << envVars, waitVars, resVars, histVars >>

\* One iteration of the loop of util.WaitForPort for the direct caller.
ProberWaitForPort ==
    /\ pc = "p_wait"
    /\ LET outcome == WaitForPortStep(ctxDone, probe.port, probes)
       IN  /\ probe' = ProbeNext(outcome)
           /\ probes' = IF outcome = "retry" THEN probes + 1 ELSE probes
           /\ pc' = IF outcome = "retry" THEN "p_wait" ELSE "p_returned"
    /\ UNCHANGED << driver, config, ctxDone, d, w, ret, pending >>
    /\ UNCHANGED << seqVars, concVars, errVars, credVars >>
    /\ UNCHANGED << passRet, pidRet >>
    /\ UNCHANGED << envVars, waitVars, resVars, histVars >>

\* The caller of util.WaitForPort cancels the context it passed, or the
\* context passed to NewMoneroDaemon is cancelled (or its deadline passes)
\* during the call.
CancelContext ==
    /\ \/ driver = "prober" /\ pc \in {"idle", "p_wait"}
       \/ driver = "daemon" /\ pc \in {"d_check", "d_args", "d_spawn", "d_wait"}
    /\ ~ctxDone
    /\ ctxDone' = TRUE
    /\ UNCHANGED << driver, config, d, w, pc, ret, probes, pending >>
    /\ UNCHANGED << seqVars, concVars, errVars, credVars >>
    /\ UNCHANGED obsVars
    /\ UNCHANGED << envVars, waitVars, resVars, histVars >>

\* The holder of a daemon handle calls RPCPass.
CallRPCPass ==
    /\ driver \in {"daemon", "empty"}
    /\ pc = "ready"
    /\ \E fresh \in Passwords :
          /\ d' = [d EXCEPT !.rpcPass = RPCPass(d, fresh)]
          /\ passRet' = PassCall(ComponentMonerod, d.rpcPass, RPCPass(d, fresh))
    /\ UNCHANGED << driver, config, ctxDone, w, pc, ret, probes, pending >>
    /\ UNCHANGED << seqVars, concVars, errVars, credVars >>
    /\ UNCHANGED << probe, pidRet >>
    /\ UNCHANGED << envVars, waitVars, resVars, histVars >>

\* The holder of a wallet handle calls WalletRPCPass.
CallWalletRPCPass ==
    /\ driver = "empty"
    /\ pc = "ready"
    /\ \E fresh \in Passwords :
          /\ w' = [w EXCEPT !.rpcPass = WalletRPCPass(w, fresh)]
          /\ passRet' = PassCall(ComponentWalletRPC, w.rpcPass, WalletRPCPass(w, fresh))
    /\ UNCHANGED << driver, config, ctxDone, d, pc, ret, probes, pending >>
    /\ UNCHANGED << seqVars, concVars, errVars, credVars >>
    /\ UNCHANGED << probe, pidRet >>
    /\ UNCHANGED << envVars, waitVars, resVars, histVars >>

\* The holder of a wallet handle calls PID.
CallPID ==
    /\ driver \in {"coordinator", "empty"}
    /\ pc = "ready"
    /\ pidRet' = [called |-> TRUE, val |-> PID(w), held |-> Held(ComponentWalletRPC),
                  pid |-> proc[ComponentWalletRPC].pid]
    /\ UNCHANGED << driver, config, ctxDone, d, w, pc, ret, probes, pending >>
    /\ UNCHANGED << seqVars, concVars, errVars, credVars >>
    /\ UNCHANGED << probe, passRet >>
    /\ UNCHANGED << envVars, waitVars, resVars, histVars >>

\* Passwords a caller hands to SetWalletPass.
WalletPasswords ==
    {"", "secret"}

\* The holder of a wallet handle calls SetWalletPass(pass), before it
\* shuts anything down.
CallSetWalletPass ==
    /\ driver = "empty"
    /\ pc = "ready"
    /\ calls = 0
    /\ ~passRet[ComponentMonerod].called
    /\ \E pass \in WalletPasswords : w' = [w EXCEPT !.walletPass = pass]
    /\ UNCHANGED << driver, config, ctxDone, d, pc, ret, probes, pending >>
    /\ UNCHANGED << seqVars, concVars, errVars, credVars >>
    /\ UNCHANGED obsVars
    /\ UNCHANGED << envVars, waitVars, resVars, histVars >>

\* The holder of a wallet handle calls WalletPass, before it shuts anything
\* down.
CallWalletPass ==
    /\ driver = "empty"
    /\ pc = "ready"
    /\ calls = 0
    /\ ~passRet[ComponentMonerod].called
    /\ w' = [w EXCEPT !.walletPass = WalletPassField(w)]
    /\ wpRet' = [called |-> TRUE, val |-> WalletPass(w), walletPass |-> w.walletPass,
                 rpcPass |-> w.rpcPass, rpcAfter |-> w.rpcPass]
    /\ UNCHANGED << driver, config, ctxDone, d, pc, ret, probes, pending >>
    /\ UNCHANGED << seqVars, concVars, errVars, daemonArgs >>
    /\ UNCHANGED obsVars
    /\ UNCHANGED << envVars, waitVars, resVars, histVars >>

(* ------------------- callers of a wallet handle ----------------------- *)

\* The holder of the wallet handle calls WalletRPC.Start(ctx), with a
\* context that is already cancelled or with a live one.
CallWalletStart ==
    /\ driver = "wallet"
    /\ pc = "ready"
    /\ spc = "idle"
    /\ starts < MaxStartCalls
    /\ starts' = starts + 1
    /\ \E cancelled \in BOOLEAN :
          /\ ctxDone' = cancelled
          /\ startCancelled' = cancelled
    /\ walletStart' = NoResult
    /\ sdRes' = [sdRes EXCEPT ![ComponentWalletRPC] = NoResult]
    /\ pc' = "w_check"
    /\ UNCHANGED << driver, config, d, w, ret, probes, pending, orphans, ctxKilled >>
    /\ UNCHANGED << concVars, errVars, credVars >>
    /\ UNCHANGED obsVars
    /\ UNCHANGED << envVars, waitVars, histVars >>
    /\ UNCHANGED << daemonStart, create, mgrShutdown >>

\* WalletRPC.Start returns to the holder of the handle.
WalletStartReturned ==
    /\ driver = "wallet"
    /\ pc = "w_returned"
    /\ pc' = "ready"
    /\ UNCHANGED << driver, config, ctxDone, d, w, ret, probes, pending >>
    /\ UNCHANGED << seqVars, concVars, errVars, credVars >>
    /\ UNCHANGED obsVars
    /\ UNCHANGED << envVars, waitVars, resVars, histVars >>

\* The holder of the handle runs Start in a new goroutine and calls Shutdown
\* itself, both with a live context (go m.Start(ctx); m.Shutdown(ctx)).
CallConcurrent ==
    /\ driver = "wallet"
    /\ pc = "ready"
    /\ spc = "idle"
    /\ starts < MaxStartCalls
    /\ starts' = starts + 1
    /\ ctxDone' = FALSE
    /\ startCancelled' = FALSE
    /\ walletStart' = NoResult
    /\ sdRes' = [sdRes EXCEPT ![ComponentWalletRPC] = NoResult]
    /\ pc' = "w_check"
    /\ spc' = "s_check"
    /\ UNCHANGED << driver, config, d, w, ret, probes, pending, orphans, ctxKilled >>
    /\ UNCHANGED << sRes, sWaiter, sDone, errVars, credVars >>
    /\ UNCHANGED obsVars
    /\ UNCHANGED << envVars, waitVars, histVars >>
    /\ UNCHANGED << daemonStart, create, mgrShutdown >>

\* A run-time panic in the goroutine that runs Shutdown ends the program.
ConcPanic ==
    /\ sRes' = Panic
    /\ spc' = "panicked"
    /\ pc' = "panicked"

\* The concurrent WalletRPC.Shutdown: the test of w.cmd.Process, which
\* dereferences w.cmd whatever Start has stored in it so far.
ConcShutdownCheck ==
    /\ spc = "s_check"
    /\ pc # "panicked"
    /\ IF ~w.cmd
       THEN ConcPanic
       ELSE IF ~w.cmdProcess
       THEN /\ sRes' = Ok
            /\ spc' = "returned"
            /\ UNCHANGED pc
       ELSE /\ spc' = "s_signal"
            /\ UNCHANGED << pc, sRes >>
    /\ UNCHANGED << driver, config, ctxDone, d, w, ret, probes, pending >>
    /\ UNCHANGED << seqVars, sWaiter, sDone, errVars, credVars >>
    /\ UNCHANGED obsVars
    /\ UNCHANGED << envVars, waitVars, resVars, histVars >>

\* The concurrent WalletRPC.Shutdown: the interrupt signal to whatever
\* process w.cmd refers to now, and the start of the waiting goroutine.
ConcShutdownSignal ==
    /\ spc = "s_signal"
    /\ pc # "panicked"
    /\ IF ~w.cmd
       THEN /\ ConcPanic
            /\ UNCHANGED << proc, sWaiter, sDone >>
       ELSE IF SignalFails(ComponentWalletRPC)
       THEN /\ sRes' = Err(E(opShutdown, ComponentWalletRPC, KindProcess,
                   Errorf("failed to send interrupt signal",
                          Raw("os: process already finished"))))
            /\ spc' = "returned"
            /\ UNCHANGED << pc, proc, sWaiter, sDone >>
       ELSE /\ proc' = [proc EXCEPT ![ComponentWalletRPC].signals = @ + 1]
            /\ sWaiter' = TRUE
            /\ sDone' = "empty"
            /\ spc' = "s_select"
            /\ UNCHANGED << pc, sRes >>
    /\ UNCHANGED << driver, config, ctxDone, listening, d, w, ret, probes, pending >>
    /\ UNCHANGED << seqVars, errVars, credVars >>
    /\ UNCHANGED obsVars
    /\ UNCHANGED << waitVars, resVars, histVars >>

\* The waiting goroutine of the concurrent Shutdown: Process.Wait returns
\* once the process has exited; waiting for a process another goroutine has
\* already waited for fails.
ConcWaitGoroutine ==
    /\ sWaiter
    /\ proc[ComponentWalletRPC].state \in {"exited", "reaped"}
    /\ CanSend(IF sDone = "empty" THEN 0 ELSE 1, spc = "s_select")
    /\ sDone' = IF proc[ComponentWalletRPC].state = "exited" THEN "nil" ELSE "err"
    /\ proc' = [proc EXCEPT ![ComponentWalletRPC].state = "reaped"]
    /\ sWaiter' = FALSE
    /\ UNCHANGED << driver, config, ctxDone, listening, d, w, pc, ret, probes, pending >>
    /\ UNCHANGED << seqVars, spc, sRes, errVars, credVars >>
    /\ UNCHANGED obsVars
    /\ UNCHANGED << waitVars, resVars, histVars >>

\* The concurrent WalletRPC.Shutdown: the select takes ctx.Done().
ConcShutdownTimeout ==
    /\ spc = "s_select"
    /\ pc # "panicked"
    /\ sRes' = Err(E(opShutdown, ComponentWalletRPC, KindTimeout, Raw("shutdown timed out")))
    /\ spc' = "returned"
    /\ abandoned' = IF sWaiter THEN abandoned + 1 ELSE abandoned
    /\ sWaiter' = FALSE
    /\ sDone' = "empty"
    /\ UNCHANGED << driver, config, ctxDone, d, w, pc, ret, probes, pending >>
    /\ UNCHANGED << seqVars, errVars, credVars >>
    /\ UNCHANGED obsVars
    /\ UNCHANGED << envVars, curWaiter, done, resVars, histVars >>

\* The concurrent WalletRPC.Shutdown: the select takes the result of the
\* wait; on a nil result w.cmd.Process and w.cmd are cleared, whatever w.cmd
\* refers to by now.
ConcShutdownDone ==
    /\ spc = "s_select"
    /\ pc # "panicked"
    /\ sDone # "empty"
    /\ IF sDone = "err"
       THEN /\ sRes' = Err(E(opShutdown, ComponentWalletRPC, KindProcess,
                   Errorf("error during shutdown", Raw("wait: no child processes"))))
            /\ spc' = "returned"
            /\ UNCHANGED << pc, w >>
       ELSE IF ~w.cmd
       THEN /\ ConcPanic
            /\ UNCHANGED w
       ELSE /\ w' = [w EXCEPT !.cmdProcess = FALSE, !.cmd = FALSE]
            /\ sRes' = Ok
            /\ spc' = "returned"
            /\ UNCHANGED pc
    /\ sDone' = "empty"
    /\ UNCHANGED << driver, config, ctxDone, d, ret, probes, pending >>
    /\ UNCHANGED << seqVars, sWaiter, errVars, credVars >>
    /\ UNCHANGED obsVars
    /\ UNCHANGED << envVars, waitVars, resVars, histVars >>

\* A process whose reference was overwritten exits.
OrphanExit ==
    /\ orphans > 0
    /\ orphans' = orphans - 1
    /\ UNCHANGED << driver, config, ctxDone, d, w, pc, ret, probes, pending >>
    /\ UNCHANGED << starts, startCancelled, ctxKilled, concVars, errVars, credVars >>
    /\ UNCHANGED obsVars
    /\ UNCHANGED << envVars, waitVars, resVars, histVars >>

(* -------------------- callers of the errors package ------------------- *)

\* errVal := errors.E(errArgs...)
CallE ==
    /\ driver = "errors"
    /\ pc = "idle"
    /\ errVal' = EVariadic(errArgs)
    /\ pc' = "e_built"
    /\ UNCHANGED << driver, config, ctxDone, d, w, ret, probes, pending >>
    /\ UNCHANGED << seqVars, concVars, credVars >>
    /\ UNCHANGED << errArgs, errWraps, errTarget, errKind, errIs, errText >>
    /\ UNCHANGED obsVars
    /\ UNCHANGED << envVars, waitVars, resVars, histVars >>

\* errors.GetKind of the error wrapped errWraps times, and of the other
\* operand.
CallGetKind ==
    /\ driver = "errors"
    /\ pc = "e_built"
    /\ errKind' = [x |-> GetKind(Wrapped(errVal, errWraps)), t |-> GetKind(errTarget)]
    /\ pc' = "e_kind"
    /\ UNCHANGED << driver, config, ctxDone, d, w, ret, probes, pending >>
    /\ UNCHANGED << seqVars, concVars, credVars >>
    /\ UNCHANGED << errArgs, errWraps, errTarget, errVal, errIs, errText >>
    /\ UNCHANGED obsVars
    /\ UNCHANGED << envVars, waitVars, resVars, histVars >>

\* errors.Is with the two operands in either order.
CallIs ==
    /\ driver = "errors"
    /\ pc = "e_kind"
    /\ errIs' = [xt |-> Is(Wrapped(errVal, errWraps), errTarget),
                  tx |-> Is(errTarget, Wrapped(errVal, errWraps))]
    /\ pc' = "e_is"
    /\ UNCHANGED << driver, config, ctxDone, d, w, ret, probes, pending >>
    /\ UNCHANGED << seqVars, concVars, credVars >>
    /\ UNCHANGED << errArgs, errWraps, errTarget, errVal, errKind, errText >>
    /\ UNCHANGED obsVars
    /\ UNCHANGED << envVars, waitVars, resVars, histVars >>

\* errVal.Error()
CallError ==
    /\ driver = "errors"
    /\ pc = "e_is"
    /\ errText' = ErrorString(errVal)
    /\ pc' = "e_done"
    /\ UNCHANGED << driver, config, ctxDone, d, w, ret, probes, pending >>
    /\ UNCHANGED << seqVars, concVars, credVars >>
    /\ UNCHANGED << errArgs, errWraps, errTarget, errVal, errKind, errIs >>
    /\ UNCHANGED obsVars
    /\ UNCHANGED << envVars, waitVars, resVars, histVars >>

(* --------------------------- specification ---------------------------- *)

Next ==
    \/ \E p \in ValidPorts : ExternalListen(p)
    \/ \E p \in ValidPorts : ExternalClose(p)
    \/ \E c \in Components : ProcBind(c)
    \/ \E c \in Components : ProcExit(c)
    \/ CallNewMoneroDaemon
    \/ NewMoneroDaemon
    \/ DaemonStartArgs
    \/ DaemonSpawn
    \/ DaemonWaitForPort
    \/ NewMoneroDaemonReturned
    \/ DaemonShutdown
    \/ CallDaemonShutdown
    \/ NewWalletRPC
    \/ WalletStartPortCheck
    \/ WalletStartArgs
    \/ WalletSpawn
    \/ WalletWaitForPort
    \/ WalletCheckHealth
    \/ WalletShutdownCheck
    \/ WalletShutdownSignal
    \/ WalletWaitGoroutine
    \/ AbandonedWaitGoroutine
    \/ WalletShutdownTimeout
    \/ WalletShutdownDone
    \/ CallWalletShutdown
    \/ NewMoneroger
    \/ NewMonerogerDaemonReturned
    \/ NewMonerogerWalletReturned
    \/ MonerogerShutdown
    \/ MonerogerShutdownWalletReturned
    \/ CallWaitForPort
    \/ ProberWaitForPort
    \/ CancelContext
    \/ CallRPCPass
    \/ CallWalletRPCPass
    \/ CallPID
    \/ CallSetWalletPass
    \/ CallWalletPass
    \/ CommandContextKill
    \/ CallWalletStart
    \/ WalletStartReturned
    \/ CallConcurrent
    \/ ConcShutdownCheck
    \/ ConcShutdownSignal
    \/ ConcWaitGoroutine
    \/ ConcShutdownTimeout
    \/ ConcShutdownDone
    \/ OrphanExit
    \/ CallE
    \/ CallGetKind
    \/ CallIs
    \/ CallError

Spec ==
    Init /\ [][Next]_vars

\* The goroutine that runs util.WaitForPort is scheduled: an iteration of
\* the loop that can be taken is eventually taken.
FairSpec ==
    /\ Spec
    /\ WF_vars(ProberWaitForPort)
    /\ WF_vars(DaemonWaitForPort)
    /\ WF_vars(WalletWaitForPort)

\* The goroutine that runs Shutdown is scheduled and the timer of the context
\* made by context.WithTimeout(ctx, 10*time.Second) fires: a statement of
\* Shutdown that can be executed is eventually executed, and the ctx.Done()
\* case of its select can always be taken in the end. Nothing makes the
\* process exit.
ShutdownFairSpec ==
    /\ Spec
    /\ WF_vars(WalletShutdownCheck)
    /\ WF_vars(WalletShutdownSignal)
    /\ WF_vars(WalletShutdownTimeout)
    /\ WF_vars(DaemonShutdown)


(* ------------------------------- claims ------------------------------- *)

\* C1: in NewMoneroger the wallet process is spawned only after the daemon
\* start has returned success, that is after the daemon's RPC port has been
\* observed accepting connections (by the attach check or by the readiness
\* wait); no wallet spawn precedes that observation.
C1_WalletSpawnAfterDaemonReady ==
    driver = "coordinator" =>
        /\ proc[ComponentWalletRPC].spawns > 0 => (daemonStart.status = "ok" /\ dPortSeen)
        /\ pc \in {"w_spawn", "w_wait", "w_health"} => (daemonStart.status = "ok" /\ dPortSeen)

C1_Witness ==
    /\ driver = "coordinator"
    /\ proc[ComponentMonerod].spawns = 1
    /\ proc[ComponentWalletRPC].spawns = 1
    /\ dPortSeen

\* C2: when the daemon start fails inside NewMoneroger, the wallet supervisor
\* is never validated, constructed, port-checked or spawned, and the error
\* NewMoneroger returns is the very error value the daemon start returned.
C2_DaemonFailurePropagatesUnchanged ==
    (driver = "coordinator" /\ daemonStart.status = "err") =>
        /\ ~wValidated
        /\ ~w.exists
        /\ seenAtStart[ComponentWalletRPC] = "none"
        /\ walletStart.status = "none"
        /\ proc[ComponentWalletRPC].spawns = 0
        /\ pc \in {"d_returned", "failed"}
        /\ pc = "failed" => create = daemonStart

C2_Witness ==
    /\ driver = "coordinator"
    /\ pc = "failed"
    /\ daemonStart.status = "err"
    /\ create = daemonStart
    /\ proc[ComponentMonerod].spawns = 1
    /\ GetKind(create.err) = KindProcess

\* C3: Moneroger.Shutdown stops the services in reverse start order: the
\* daemon is sent its interrupt only in a step that follows the successful
\* return of the wallet supervisor's Shutdown within the same call.
C3_DaemonSignalAfterWalletShutdown ==
    [][(driver = "coordinator"
        /\ proc'[ComponentMonerod].signals > proc[ComponentMonerod].signals)
       => (pc = "ds_call" /\ sdRes[ComponentWalletRPC].status = "ok")]_vars

C3_Witness ==
    /\ driver = "coordinator"
    /\ proc[ComponentMonerod].signals = 1
    /\ sdRes[ComponentWalletRPC].status = "ok"
    /\ pre[ComponentWalletRPC].held
    /\ mgrShutdown.status = "ok"

\* C4: when the wallet supervisor's Shutdown returns a Timeout-kind error,
\* Moneroger.Shutdown returns that same error and the daemon supervisor's
\* Shutdown is not invoked: the daemon gets no signal and its handle is
\* unchanged.
C4_WalletTimeoutStopsShutdown ==
    (/\ driver = "coordinator"
     /\ pc = "ready"
     /\ sdRes[ComponentWalletRPC].status = "err"
     /\ GetKind(sdRes[ComponentWalletRPC].err) = KindTimeout) =>
        /\ mgrShutdown = sdRes[ComponentWalletRPC]
        /\ ~dsInvoked
        /\ sdRes[ComponentMonerod].status = "none"
        /\ proc[ComponentMonerod].signals = pre[ComponentMonerod].sigs
        /\ d = pre[ComponentMonerod].d

C4_Witness ==
    /\ driver = "coordinator"
    /\ pc = "ready"
    /\ GetKind(mgrShutdown.err) = KindTimeout
    /\ mgrShutdown = sdRes[ComponentWalletRPC]
    /\ d.process
    /\ proc[ComponentMonerod].state = "running"
    /\ proc[ComponentMonerod].signals = 0

\* C5: when the wallet start fails after the daemon start succeeded,
\* NewMoneroger returns the wallet's error and leaves the daemon as it was:
\* the daemon process has not been signalled, has not been waited for, and
\* the daemon handle still holds the reference to the process it spawned.
C5_WalletFailureLeavesDaemon ==
    (driver = "coordinator" /\ pc = "failed" /\ daemonStart.status = "ok") =>
        /\ walletStart.status = "err"
        /\ create = walletStart
        /\ proc[ComponentMonerod].signals = 0
        /\ proc[ComponentMonerod].state # "reaped"
        /\ d.process = (proc[ComponentMonerod].spawns = 1)
        /\ ~dsInvoked

C5_Witness ==
    /\ driver = "coordinator"
    /\ pc = "failed"
    /\ daemonStart.status = "ok"
    /\ create = walletStart
    /\ proc[ComponentWalletRPC].spawns = 1
    /\ d.process
    /\ proc[ComponentMonerod].state = "running"

\* What the start of the supervisor of component c returned.
StartResult(c) ==
    IF c = ComponentMonerod THEN daemonStart ELSE walletStart

\* The port the handle of component c reports, and the configured one.
HandlePort(c) ==
    IF c = ComponentMonerod THEN d.rpcPort ELSE w.rpcPort
ConfiguredPort(c) ==
    IF c = ComponentMonerod THEN config.MoneroPort ELSE config.WalletPort

\* C6 as stated: for every supervisor, daemon and wallet, a Start that finds
\* its configured port already accepting connections attaches: it spawns no
\* process, succeeds, and the handle reports that port.
C6_Original ==
    \A c \in Components :
        (seenAtStart[c] = "open" /\ pc \notin {"d_check", "w_check"}) =>
            /\ StartResult(c).status = "ok"
            /\ proc[c].spawns = 0
            /\ HandlePort(c) = ConfiguredPort(c)

\* C6 as amended: the daemon supervisor attaches (no process spawned, success,
\* no process reference, handle reports the port already in use); the wallet
\* supervisor spawns no process either but its Start returns a Network-kind
\* error (the Start that its constructor calls, on a handle that has spawned
\* nothing before).
C6_AttachOrRefuse ==
    /\ seenAtStart[ComponentMonerod] = "open" =>
          /\ daemonStart = Ok
          /\ proc[ComponentMonerod].spawns = 0
          /\ ~d.process
          /\ d.rpcPort = config.MoneroPort
          /\ d.rpcPort \in ValidPorts
    /\ (driver = "coordinator" /\ seenAtStart[ComponentWalletRPC] = "open") =>
          /\ walletStart.status = "err"
          /\ GetKind(walletStart.err) = KindNetwork
          /\ proc[ComponentWalletRPC].spawns = 0
          /\ ~Held(ComponentWalletRPC)

C6_Witness ==
    /\ seenAtStart[ComponentMonerod] = "open"
    /\ seenAtStart[ComponentWalletRPC] = "open"
    /\ pc = "failed"
    /\ d.rpcPort = 28081

\* The daemon address expected for each daemon port on which a listener can
\* be bound.
ExpectedDaemonAddress(port) ==
    CASE port = 18081 -> "http://localhost:18081"
      [] port = 28081 -> "http://localhost:28081"
      [] port = 18083 -> "http://localhost:18083"

\* C7: when NewMoneroger runs with a listener already bound on the daemon
\* port P1 and the wallet port P2 free, no daemon process is spawned, the
\* wallet process is spawned once (exactly once as soon as its executable has
\* been found and started, which every successful create implies, and never
\* twice), and the daemon-address argument of the wallet process is
\* http://localhost:P1.
C7_AttachThenOneWallet ==
    (/\ driver = "coordinator"
     /\ seenAtStart[ComponentMonerod] = "open"
     /\ seenAtStart[ComponentWalletRPC] = "free") =>
        /\ proc[ComponentMonerod].spawns = 0
        /\ proc[ComponentWalletRPC].spawns <= 1
        /\ pc \notin {"w_args"} =>
              walletArgs.daemonAddress = ExpectedDaemonAddress(config.MoneroPort)
        /\ pc \in {"ready", "failed"} =>
              (proc[ComponentWalletRPC].spawns = 1
                  <=> ~(/\ walletStart.status = "err"
                        /\ GetKind(walletStart.err) = KindProcess
                        /\ walletStart.err[1].op = opStart))
        /\ create.status = "ok" => proc[ComponentWalletRPC].spawns = 1

C7_Witness ==
    /\ driver = "coordinator"
    /\ seenAtStart[ComponentMonerod] = "open"
    /\ seenAtStart[ComponentWalletRPC] = "free"
    /\ create.status = "ok"
    /\ proc[ComponentMonerod].spawns = 0
    /\ proc[ComponentWalletRPC].spawns = 1
    /\ config.MoneroPort = 28081
    /\ walletArgs.daemonAddress = "http://localhost:28081"

\* C8: for every supervisor that holds no process reference (never started,
\* or constructed empty), Shutdown returns success, sends no signal and
\* changes no field, however often it is called.
C8_ShutdownWithoutProcessIsNoop ==
    \A c \in Components :
        (sdRes[c].status # "none" /\ ~pre[c].held) =>
            /\ sdRes[c].status = "ok"
            /\ proc[c].signals = pre[c].sigs
            /\ d = pre[c].d
            /\ w = pre[c].w

\* C9: after a Shutdown that ends with the process having exited, the
\* supervisor's process reference is cleared, and every later Shutdown on the
\* handle returns success and sends no further signal; for the daemon and
\* for the wallet supervisor.
C9_ShutdownIdempotent ==
    \A c \in Components :
        okExit[c].seen =>
            /\ ~Held(c)
            /\ sdRes[c].status \in {"none", "ok"}
            /\ proc[c].signals = okExit[c].sigs

\* C10: whenever Shutdown of a supervisor that held a process reference
\* returns success, the interrupt has been delivered and the process has
\* been observed to have exited; success is never reported while the
\* process is still running.
C10_SuccessMeansExited ==
    \A c \in Components :
        (sdRes[c].status = "ok" /\ pre[c].held) =>
            /\ proc[c].signals > pre[c].sigs
            /\ proc[c].state = "reaped"

Returned ==
    {daemonStart, walletStart, create, mgrShutdown, probe.res}
        \cup {sdRes[c] : c \in Components}

\* The error is a taxonomy error with operation, component and a kind other
\* than Unknown.
Classified(err) ==
    /\ err # Nil
    /\ err[1].tax
    /\ err[1].op # ""
    /\ err[1].component # ""
    /\ GetKind(err) # KindUnknown

\* C12: every error a public operation returns (daemon start, wallet start,
\* either Shutdown, util.WaitForPort, NewMoneroger, Moneroger.Shutdown) is a
\* taxonomy error with operation, component and kind, never an error whose
\* kind GetKind reports as Unknown.
C12_OnlyTaxonomyErrors ==
    \A r \in Returned : r.status = "err" => Classified(r.err)

\* Start of the supervisor of component c failed because the executable was
\* not found or cmd.Start failed: it got past the port check and spawned
\* nothing.
SpawnFailed(c) ==
    /\ StartResult(c).status = "err"
    /\ seenAtStart[c] = "free"
    /\ proc[c].spawns = 0

\* Some layer of the error carries the operation tag op.
Tagged(err, op) ==
    \E i \in 1..Len(err) : err[i].tax /\ err[i].op = op

\* C13 as stated: for the daemon and for the wallet supervisor, a failed
\* lookup of the executable or a failed spawn makes Start return a
\* Process-kind error tagged with the operation ProcessSpawn, and no process
\* reference is stored.
C13_Original ==
    \A c \in Components :
        SpawnFailed(c) =>
            /\ GetKind(StartResult(c).err) = KindProcess
            /\ Tagged(StartResult(c).err, OpProcessSpawn)
            /\ ~Held(c)

\* C13 as amended: a failed lookup or spawn makes Start return a Process-kind
\* error and no process reference is stored; the daemon's error carries the
\* tag ProcessSpawn beneath the tag Start that NewMoneroDaemon adds, the
\* wallet's error is tagged WalletRPC.Start and carries no ProcessSpawn tag.
C13_SpawnFailureIsProcessKind ==
    /\ \A c \in Components :
          SpawnFailed(c) =>
              /\ GetKind(StartResult(c).err) = KindProcess
              /\ ~Held(c)
              /\ proc[c].state = "none"
    /\ SpawnFailed(ComponentMonerod) =>
          /\ daemonStart.err[1].op = OpStart
          /\ daemonStart.err[2].tax
          /\ daemonStart.err[2].op = OpProcessSpawn
          /\ daemonStart.err[2].kind = KindProcess
          /\ ~d.process
    /\ SpawnFailed(ComponentWalletRPC) =>
          /\ walletStart.err[1].op = opStart
          /\ ~Tagged(walletStart.err, OpProcessSpawn)
          /\ ~w.cmd

C13_Witness ==
    /\ driver = "coordinator"
    /\ pc = "failed"
    /\ SpawnFailed(ComponentWalletRPC)
    /\ daemonStart.status = "ok"
    /\ proc[ComponentMonerod].spawns = 1

\* Start of the supervisor of component c failed because util.WaitForPort
\* returned an error after the process had been spawned.
ProberFailed(c) ==
    /\ StartResult(c).status = "err"
    /\ proc[c].spawns > 0
    /\ probe.res.status = "err"

\* C14: when util.WaitForPort fails after the process was spawned, the error
\* returned to the caller of Start is classified by GetKind as Network or
\* Timeout and carries the operation tag PortBinding, for the daemon and for
\* the wallet supervisor.
C14_ProberFailureClassified ==
    \A c \in Components :
        ProberFailed(c) =>
            /\ GetKind(StartResult(c).err) \in {KindNetwork, KindTimeout}
            /\ Tagged(StartResult(c).err, OpPortBinding)

\* The control points inside the loop of util.WaitForPort.
WaitPcs ==
    {"d_wait", "w_wait", "p_wait"}

\* C15: an iteration of the loop of util.WaitForPort that finds the context
\* cancelled returns at once with an error, the context's cancellation error
\* while the deadline has not passed, and makes no connection attempt and no
\* sleep; a call with a context cancelled beforehand returns that error
\* after zero attempts.
C15_CancelledMeansNoAttempt ==
    /\ []((probe.called /\ probe.ctxAtCall) =>
             /\ probe.obs = << >>
             /\ probe.res \in {NoResult, Err(Raw("context canceled"))}
             /\ pc \notin WaitPcs => probe.res = Err(Raw("context canceled")))
    /\ [][(pc \in WaitPcs /\ ctxDone /\ probe' # probe) =>
             /\ probe'.obs = probe.obs
             /\ probes' = probes
             /\ pc' \notin WaitPcs
             /\ probe'.res.status = "err"
             /\ probes < MaxProbes => probe'.res = Err(Raw("context canceled"))]_vars

C15_Witness ==
    /\ driver = "prober"
    /\ pc = "p_returned"
    /\ ~probe.ctxAtCall
    /\ probe.obs = << FALSE >>
    /\ probe.res = Err(Raw("context canceled"))

\* The decimal text of each port a call of util.WaitForPort can be given.
PortText(port) ==
    CASE port = 0 -> "0"
      [] port = -1 -> "-1"
      [] port = 18081 -> "18081"
      [] port = 18083 -> "18083"
      [] port = 28081 -> "28081"

\* The last call of util.WaitForPort returned because the deadline passed.
TimedOut ==
    /\ probe.res.status = "err"
    /\ probe.res.err # Raw("context canceled")

\* C16: when the startup deadline passes without a successful connection and
\* without cancellation, util.WaitForPort returns a taxonomy error of kind
\* Timeout whose message names the port.
C16_TimeoutIsTimeoutKind ==
    TimedOut =>
        /\ probe.res.err[1].tax
        /\ GetKind(probe.res.err) = KindTimeout
        /\ probe.res.err[Len(probe.res.err)].msg =
              "timeout waiting for port " \o PortText(probe.port)

\* C17: util.WaitForPort returns success at the first connection attempt that
\* finds the port open and makes no attempt after it: with the port open at
\* the first attempt it succeeds after one attempt, with the port open from
\* the second attempt on after two; an iteration that starts before the
\* deadline with the context not cancelled and the port open returns success.
C17_SuccessAtFirstOpenAttempt ==
    /\ [](/\ \A i \in 1..Len(probe.obs) :
                 probe.obs[i] => (i = Len(probe.obs) /\ probe.res = Ok)
          /\ probe.res = Ok =>
                 (Len(probe.obs) >= 1 /\ probe.obs[Len(probe.obs)])
          /\ (Len(probe.obs) >= 2 /\ probe.obs[2]) =>
                 (probe.res = Ok /\ Len(probe.obs) = 2))
    /\ [][(/\ pc \in WaitPcs
           /\ probe' # probe
           /\ ~ctxDone
           /\ probes < MaxProbes
           /\ IsPortInUse(probe.port)) =>
             /\ probe'.res = Ok
             /\ Len(probe'.obs) = Len(probe.obs) + 1
             /\ pc' \notin WaitPcs]_vars

C17_Witness ==
    /\ driver = "prober"
    /\ pc = "p_returned"
    /\ probe.res = Ok
    /\ probe.obs = << FALSE, TRUE >>
    /\ probe.port = 18083

\* C18: every call of util.WaitForPort terminates, and with exactly one of
\* success, the context's cancellation error or the timeout error, each only
\* when its condition was met; it makes at most MaxProbes connection attempts
\* (startup timeout divided by poll interval) and none once the deadline has
\* passed.
C18_ProberTerminates ==
    /\ [](probe.called =>
             /\ Len(probe.obs) <= MaxProbes
             /\ probes <= MaxProbes
             /\ pc \in WaitPcs => probe.res = NoResult
             /\ probe.res \in {NoResult, Ok, Err(Raw("context canceled")),
                                Err(Raw("timeout waiting for port "
                                        \o PortText(probe.port)))}
             /\ probe.res = Ok => probe.obs[Len(probe.obs)]
             /\ probe.res = Err(Raw("context canceled")) => ctxDone
             /\ TimedOut => (probes = MaxProbes /\ \A i \in 1..Len(probe.obs) : ~probe.obs[i]))
    /\ (pc \in WaitPcs) ~> (pc \notin WaitPcs /\ probe.res # NoResult)

C18_Witness ==
    /\ driver = "prober"
    /\ pc = "p_returned"
    /\ TimedOut
    /\ Len(probe.obs) = MaxProbes
    /\ ~ctxDone

\* The rpcPass field of the handle of component c.
PassField(c) ==
    IF c = ComponentMonerod THEN d.rpcPass ELSE w.rpcPass

\* C19: once the password accessor of a supervisor instance (RPCPass of the
\* daemon, WalletRPCPass of the wallet) has returned a value, configured or
\* generated on first access, every later call on that instance returns the
\* same value, through Start, Shutdown and further accessor calls; a
\* password is generated at most once and the value is never empty.
C19_PasswordMemoized ==
    \A c \in Components :
        passRet[c].called =>
            /\ passRet[c].last = passRet[c].first
            /\ passRet[c].first # ""
            /\ passRet[c].gens <= 1
            /\ PassField(c) = passRet[c].first

C19_Witness ==
    /\ driver = "daemon"
    /\ pc = "ready"
    /\ passRet[ComponentMonerod].again
    /\ passRet[ComponentMonerod].gens = 1
    /\ passRet[ComponentMonerod].last = "pwB"
    /\ sdRes[ComponentMonerod].status = "ok"
    /\ proc[ComponentMonerod].spawns = 1

\* The decimal text of each process id.
PidText(pid) ==
    CASE pid = 7 -> "7"
      [] pid = 4242 -> "4242"
      [] OTHER -> "?"

\* C20: in every state of a wallet handle PID returns "-1" exactly when the
\* handle holds no process (before Start, after a failed spawn, after a
\* successful Shutdown) and the decimal process id of the process it holds
\* otherwise, and it never panics; the same for the value each call of PID
\* returned.
C20_PidOrSentinel ==
    /\ w.exists =>
          /\ PID(w) # "panic"
          /\ PID(w) = "-1" <=> ~Held(ComponentWalletRPC)
          /\ Held(ComponentWalletRPC) => PID(w) = PidText(proc[ComponentWalletRPC].pid)
    /\ pidRet.called =>
          /\ pidRet.val = "-1" <=> ~pidRet.held
          /\ pidRet.held => pidRet.val = PidText(pidRet.pid)

C20_Witness ==
    /\ driver = "coordinator"
    /\ pidRet.called
    /\ pidRet.held
    /\ pidRet.val = "4242"
    /\ sdRes[ComponentWalletRPC].status = "ok"
    /\ ~Held(ComponentWalletRPC)
    /\ PID(w) = "-1"

\* Processes spawned through the wallet handle that are alive: the one the
\* last spawn started, and those whose reference a later spawn overwrote.
LiveSpawned ==
    (IF proc[ComponentWalletRPC].state = "running" THEN 1 ELSE 0) + orphans

\* C21: when Start and Shutdown run concurrently on the same wallet handle,
\* nothing dereferences a nil reference, both calls return without error, and
\* once both have returned the handle either holds no reference while no
\* process spawned through it is alive, or holds the reference to the single
\* live process it spawned.
C21_ConcurrentStartShutdown ==
    (driver = "wallet" /\ spc # "idle") =>
        /\ pc # "panicked"
        /\ spc # "panicked"
        /\ spc = "returned" => sRes = Ok
        /\ pc = "ready" => walletStart = Ok
        /\ (pc = "ready" /\ spc = "returned") =>
              IF Held(ComponentWalletRPC)
              THEN proc[ComponentWalletRPC].state = "running" /\ LiveSpawned = 1
              ELSE LiveSpawned = 0

\* The value the argument list gives for one parameter of errors.E: the
\* argument of that slot if there is one, else zero.
Given(args, slot, zero) ==
    IF \E i \in 1..Len(args) : Slot(args[i]) = slot
    THEN CHOOSE a \in {args[i] : i \in 1..Len(args)} : Slot(a) = slot
    ELSE zero

GivenOp ==
    Given(errArgs, "Op", OpArg("")).s
GivenComponent ==
    Given(errArgs, "string", StringArg("")).s
GivenKind ==
    Given(errArgs, "Kind", KindArg(KindUnknown)).k
GivenErr ==
    Given(errArgs, "Err", ErrorArg(Nil)).e

\* The value is itself a taxonomy error (not nil, not a plain error, not a
\* plain error wrapped around a taxonomy error).
IsTaxonomy(err) ==
    err # Nil /\ err[1].tax

\* Some error of the chain is a taxonomy error.
HasTaxonomy(err) ==
    \E i \in 1..Len(err) : err[i].tax

\* C22: GetKind of an error built by errors.E returns the Kind handed to E
\* (the zero Kind, Unknown, when none was handed), however many layers of
\* plain context are wrapped around it, and it returns Unknown for nil and
\* for every chain that contains no taxonomy error.
C22_GetKindThroughWrapping ==
    (driver = "errors" /\ pc \in {"e_kind", "e_is", "e_done"}) =>
        /\ errKind.x = GivenKind
        /\ ~HasTaxonomy(errTarget) => errKind.t = KindUnknown

C22_Witness ==
    /\ driver = "errors"
    /\ pc = "e_done"
    /\ errWraps = 2
    /\ GivenKind = KindProcess
    /\ IsTaxonomy(GivenErr)
    /\ errKind.x = KindProcess
    /\ errTarget = Raw("regular error")
    /\ errKind.t = KindUnknown

\* C23: Is(err, target) is true exactly when both values are themselves
\* taxonomy errors and have the same Kind, whatever their operation,
\* component and cause, false when either is not, and the same with the
\* operands exchanged.
C23_IsComparesKinds ==
    (driver = "errors" /\ pc \in {"e_is", "e_done"}) =>
        LET x == Wrapped(errVal, errWraps)
        IN  /\ errIs.xt <=> (/\ IsTaxonomy(x)
                             /\ IsTaxonomy(errTarget)
                             /\ x[1].kind = errTarget[1].kind)
            /\ errIs.tx <=> errIs.xt

C23_Witness ==
    /\ driver = "errors"
    /\ pc = "e_done"
    /\ errIs.xt
    /\ errIs.tx
    /\ errVal[1].op = OpStart
    /\ errVal[1].component = ComponentMonerod
    /\ Tail(errVal) = Nil
    /\ errTarget = E(opShutdown, ComponentWalletRPC, KindNetwork, Raw("connection refused"))

\* C24: errors.E builds the same error for every order of one operation, one
\* component, one kind and one underlying error, and a field whose argument
\* is omitted keeps its zero value.
C24_EOrderIndependent ==
    (driver = "errors" /\ pc # "idle") =>
        errVal = E(GivenOp, GivenComponent, GivenKind, GivenErr)

C24_Witness ==
    /\ driver = "errors"
    /\ pc = "e_done"
    /\ Len(errArgs) = 4
    /\ Slot(errArgs[1]) = "Err"
    /\ Slot(errArgs[2]) = "Kind"
    /\ Slot(errArgs[3]) = "string"
    /\ errVal = E(OpStart, ComponentMonerod, KindNetwork, Raw("connection failed"))

\* The strings of a sequence joined by a separator.
RECURSIVE Join(_, _)
Join(parts, sep) ==
    IF Len(parts) = 1 THEN parts[1]
    ELSE parts[1] \o sep \o Join(Tail(parts), sep)

\* C25: the message of a taxonomy error is its component, its operation, the
\* name of its kind and the message of its cause joined by ": "; without a
\* cause it is the first three only, with no separator at the end.
C25_MessageFormat ==
    (driver = "errors" /\ pc = "e_done") =>
        LET e == errVal[1]
            cause == Tail(errVal)
            head == << e.component, e.op, KindString(e.kind) >>
        IN  errText = Join(IF cause = Nil THEN head
                           ELSE Append(head, ErrorString(cause)), ": ")

C25_Witness ==
    /\ driver = "errors"
    /\ pc = "e_done"
    /\ errText = "monerod: Start: network error: connection failed"

\* The wallet start ended in validateConfig.
ValidationFailed ==
    /\ walletStart.status = "err"
    /\ walletStart.err[1].op = opValidateConfig

\* C26: validateConfig returns no error exactly when the wallet file path is
\* not empty, the wallet file exists and the wallet port is a valid positive
\* port; an empty path or a non-positive port gives a Config-kind error and a
\* path to a wallet file that does not exist gives an error.
C26_ValidatorAcceptsExactlyValid ==
    wValidated =>
        /\ ~ValidationFailed <=> (/\ config.WalletFile # ""
                                  /\ config.WalletFile \in ExistingFiles
                                  /\ config.WalletPort \in 1..65535)
        /\ (config.WalletFile = "" \/ config.WalletPort <= 0) =>
              (ValidationFailed /\ GetKind(walletStart.err) = KindConfig)

\* C27: NewMoneroger returns an error and no manager whenever the configured
\* daemon port is not a positive integer of at most 65535 or the wallet file
\* path is empty.
C27_InvalidConfigGivesNoManager ==
    (/\ driver = "coordinator"
     /\ (config.MoneroPort \notin 1..65535 \/ config.WalletFile = "")) =>
        /\ create.status \in {"none", "err"}
        /\ pc # "ready"

C27_Witness ==
    /\ driver = "coordinator"
    /\ config.MoneroPort \in 1..65535
    /\ config.WalletFile = ""
    /\ daemonStart.status = "ok"
    /\ create.status = "err"
    /\ GetKind(create.err) = KindConfig
    /\ pc = "failed"

\* C28: under any sequence of Start and Shutdown calls made one after the
\* other on a wallet handle, no spawn begins while a process spawned earlier
\* through the handle is alive: the reference to a live process is never
\* overwritten and at most one spawned process is alive.
C28_NoSpawnOverLiveProcess ==
    /\ [](spc = "idle" => (orphans = 0 /\ LiveSpawned <= 1))
    /\ [][(spc = "idle" /\ proc'[ComponentWalletRPC].spawns > proc[ComponentWalletRPC].spawns)
            => proc[ComponentWalletRPC].state # "running"]_vars

\* C29: a Start called on a wallet handle with a context that is already
\* cancelled returns an error, and a Shutdown called afterwards on the same
\* handle with a fresh context returns success.
C29_CancelledStartThenShutdown ==
    (driver = "wallet" /\ spc = "idle" /\ startCancelled) =>
        /\ walletStart.status \in {"none", "err"}
        /\ sdRes[ComponentWalletRPC].status \in {"none", "ok"}
        /\ pc # "panicked"

\* NewMoneroDaemon has returned the error of a readiness wait that failed
\* after the daemon process had been spawned.
ReadinessFailed ==
    /\ driver \in {"daemon", "coordinator"}
    /\ proc[ComponentMonerod].spawns > 0
    /\ daemonStart.status = "err"

\* C30 as stated: after a failed readiness wait the daemon start has returned
\* an error and no handle, and the spawned process has been neither
\* interrupted nor killed.
C30_Original ==
    ReadinessFailed =>
        /\ pc # "ready"
        /\ proc[ComponentMonerod].signals = 0
        /\ ~ctxKilled

\* C30: if the readiness wait fails after the daemon process was spawned,
\* the daemon start returns an error and no handle and sends no signal to
\* the process; the process is killed only by the os/exec package, and only
\* when the wait failed because the caller's context was done, otherwise it
\* is left as it is and can remain running with no handle to stop it.
C30_ReadinessFailureLeavesProcess ==
    /\ [](ReadinessFailed =>
            /\ pc # "ready"
            /\ proc[ComponentMonerod].signals = 0
            /\ ctxKilled => ctxDone)
    /\ [][(pc = "d_wait" /\ pc' = "d_returned") => proc' = proc]_vars

C30_Witness ==
    /\ ReadinessFailed
    /\ driver = "daemon"
    /\ pc = "failed"
    /\ ~ctxDone
    /\ proc[ComponentMonerod].state = "running"
    /\ proc[ComponentMonerod].signals = 0

\* The control points of WalletRPC.Start after the process has been spawned.
PostSpawnPcs ==
    {"w_wait", "w_health"}

\* C31: when the readiness wait or the health check of the wallet fails
\* after the process was spawned, Start does not return at once but calls the
\* wallet's own Shutdown with its error pending; that Shutdown sends the
\* interrupt to the process and then waits for its exit or for the deadline,
\* and only when it has returned does Start return the pending error.
C31_CleanupBeforeStartFails ==
    /\ [][(/\ pc \in PostSpawnPcs
           /\ pc' \notin PostSpawnPcs \cup {"panicked"}
           /\ walletStart'.status # "ok") =>
             /\ pc' = "ws_check"
             /\ ret' = "start"
             /\ pending' # Nil
             /\ walletStart' = walletStart
             /\ spc = "idle" => Held(ComponentWalletRPC)]_vars
    /\ [][(ret = "start" /\ pc \in {"ws_check", "ws_signal", "ws_select"}
           /\ pc' \notin {"ws_check", "ws_signal", "ws_select", "panicked"}) =>
             /\ pc' = "w_returned"
             /\ walletStart' = Err(pending)
             /\ sdRes'[ComponentWalletRPC].status \in {"ok", "err"}
             /\ \/ proc'[ComponentWalletRPC].signals > pre[ComponentWalletRPC].sigs
                \/ /\ SignalFails(ComponentWalletRPC)
                   /\ GetKind(sdRes'[ComponentWalletRPC].err) = KindProcess]_vars
    /\ [](pc = "ws_check" /\ ret = "start" => walletStart.status = "none")

C31_Witness ==
    /\ driver = "coordinator"
    /\ pc = "failed"
    /\ walletStart.status = "err"
    /\ walletStart.err[1].op = opCheckHealth
    /\ proc[ComponentWalletRPC].spawns = 1
    /\ proc[ComponentWalletRPC].signals = 1
    /\ sdRes[ComponentWalletRPC].status = "ok"
    /\ proc[ComponentWalletRPC].state = "reaped"

\* C32: a wallet Start whose first statement finds the configured port
\* accepting connections returns a Network-kind error of the operation
\* WalletRPC.Start, spawns no process, sends no signal, and leaves the
\* handle, its command and its process reference as they were.
C32_PortInUseRefused ==
    [][(pc = "w_check" /\ pc' \notin {"w_check", "panicked"} /\ IsPortInUse(w.rpcPort)) =>
          /\ pc' = "w_returned"
          /\ walletStart'.status = "err"
          /\ GetKind(walletStart'.err) = KindNetwork
          /\ walletStart'.err[1].op = opStart
          /\ proc' = proc
          /\ w' = w]_vars

C32_Witness ==
    /\ driver = "wallet"
    /\ starts = 2
    /\ pc = "ready"
    /\ walletStart.status = "err"
    /\ GetKind(walletStart.err) = KindNetwork
    /\ seenAtStart[ComponentWalletRPC] = "open"
    /\ listening[w.rpcPort] = ComponentWalletRPC
    /\ Held(ComponentWalletRPC)
    /\ proc[ComponentWalletRPC].spawns = 1
    /\ proc[ComponentWalletRPC].state = "running"

\* The process of the wallet has exited (and may have been waited for).
WalletExited ==
    proc[ComponentWalletRPC].state \in {"exited", "reaped"}

\* C33: the goroutine that waits for the exit of the process never blocks
\* on its send: once the process has exited it can finish, whether its
\* Shutdown still waits in the select or has returned on the deadline; the
\* step of a goroutine left behind changes no handle, no result of any call
\* and no channel of another call, and a Shutdown that returns on the
\* deadline leaves no result behind for a later call.
C33_WaitGoroutineNeverBlocks ==
    /\ []((abandoned > 0 /\ WalletExited) => ENABLED AbandonedWaitGoroutine)
    /\ []((curWaiter /\ WalletExited) => ENABLED WalletWaitGoroutine)
    /\ [][abandoned' < abandoned =>
             /\ abandoned' = abandoned - 1
             /\ << d, w, pc, spc, ret, pending, listening >>' =
                    << d, w, pc, spc, ret, pending, listening >>
             /\ << curWaiter, done, sWaiter, sDone >>' = << curWaiter, done, sWaiter, sDone >>
             /\ << resVars, sRes >>' = << resVars, sRes >>
             /\ proc'[ComponentWalletRPC].signals = proc[ComponentWalletRPC].signals]_vars
    /\ [][(pc = "ws_select" /\ pc' # "ws_select" /\ abandoned' > abandoned) =>
             (done' = "empty" /\ ~curWaiter')]_vars

C33_Witness ==
    /\ driver = "coordinator"
    /\ pc = "ready"
    /\ calls = 1
    /\ GetKind(mgrShutdown.err) = KindTimeout
    /\ abandoned = 0
    /\ ~curWaiter
    /\ done = "empty"
    /\ proc[ComponentWalletRPC].state = "reaped"
    /\ proc[ComponentWalletRPC].signals = 1
    /\ Held(ComponentWalletRPC)

\* The control points inside WalletRPC.Shutdown and MoneroDaemon.Shutdown.
ShutdownPcs ==
    {"ws_check", "ws_signal", "ws_select", "ds_call"}

\* C34: every Shutdown call ends: in the select the case of the deadline
\* can be taken whatever the state of the process and of the caller's
\* context, so a call that has started leaves Shutdown even if the process
\* never exits and the caller's context is never done.
C34_ShutdownTerminates ==
    /\ [](pc = "ws_select" => ENABLED WalletShutdownTimeout)
    /\ (pc \in ShutdownPcs) ~> (pc \notin ShutdownPcs)

C34_Witness ==
    /\ driver = "coordinator"
    /\ pc = "ready"
    /\ ~ctxDone
    /\ GetKind(mgrShutdown.err) = KindTimeout
    /\ proc[ComponentWalletRPC].state = "running"
    /\ proc[ComponentWalletRPC].signals = 1
    /\ abandoned = 1

\* The control points inside the operations of the wallet supervisor:
\* NewWalletRPC, Start, and Shutdown.
WalletOpPcs ==
    {"w_validate", "w_check", "w_args", "w_spawn", "w_wait", "w_health",
     "ws_check", "ws_signal", "ws_select"}

\* C35 as stated: no step of an operation of the wallet supervisor changes a
\* field of the daemon supervisor.
C35_Original ==
    [][(pc \in WalletOpPcs) => (d' = d)]_vars

\* C35 as amended: no step of an operation of the wallet supervisor changes
\* the daemon's process reference or port, or a username or password of the
\* daemon that is set; only the step of Start that builds the argument list
\* changes the daemon handle, by setting a username and a password that were
\* unset, which is the case exactly when the daemon was attached to and not
\* spawned; the daemon login handed to the wallet process is read from the
\* daemon handle in that step.
C35_WalletFillsUnsetCredentials ==
    /\ [][(pc \in WalletOpPcs) =>
             /\ d'.exists = d.exists
             /\ d'.process = d.process
             /\ d'.rpcPort = d.rpcPort
             /\ d.rpcUser # "" => d'.rpcUser = d.rpcUser
             /\ d.rpcPass # "" => d'.rpcPass = d.rpcPass
             /\ d' # d => (pc = "w_args" /\ d'.rpcUser # "" /\ d'.rpcPass # "")
             /\ (pc = "w_args" /\ pc' \notin {"w_args", "panicked"}) =>
                    walletArgs'.daemonLogin = d'.rpcUser \o ":" \o d'.rpcPass]_vars
    /\ [][(pc \in WalletOpPcs /\ driver = "coordinator" /\ d' # d) =>
             (daemonArgs = NoDaemonArgs /\ seenAtStart[ComponentMonerod] = "open")]_vars

C35_Witness ==
    /\ driver = "coordinator"
    /\ create.status = "ok"
    /\ seenAtStart[ComponentMonerod] = "open"
    /\ daemonArgs = NoDaemonArgs
    /\ d.rpcUser = "gouser"
    /\ d.rpcPass = "pwB"
    /\ walletArgs.daemonLogin = "gouser:pwB"

\* The chain outer ends with the non-nil chain inner: inner was wrapped,
\* zero or more times, into outer (errors.Unwrap reaches it).
Contains(outer, inner) ==
    /\ inner # Nil
    /\ Len(inner) <= Len(outer)
    /\ SubSeq(outer, Len(outer) - Len(inner) + 1, Len(outer)) = inner

\* C36 as stated: no error produced inside a supervisor operation is dropped,
\* including the error of the Shutdown that the wallet's Start calls to
\* clean up after a failed readiness wait or health check.
C36_Original ==
    (driver = "coordinator" /\ pc = "failed" /\ calls = 0
        /\ sdRes[ComponentWalletRPC].status = "err") =>
        Contains(create.err, sdRes[ComponentWalletRPC].err)

\* C36 (amended): the error of a failed step reaches the caller. NewMoneroger
\* returns the error of the supervisor that failed; Moneroger.Shutdown
\* returns the wallet's Shutdown error, else the daemon's; a Timeout error
\* of the wallet's Start wraps the error WaitForPort returned; and a
\* Shutdown returns success without sending a signal only on a handle with
\* no process. The one error that is discarded is the one returned by the
\* Shutdown that the wallet's Start calls as cleanup.
C36_ErrorsReachCaller ==
    /\ (driver = "coordinator" /\ pc = "failed") =>
           /\ create.status = "err"
           /\ \/ daemonStart.status = "err" /\ Contains(create.err, daemonStart.err)
              \/ walletStart.status = "err" /\ Contains(create.err, walletStart.err)
    /\ (driver = "coordinator" /\ pc = "ready" /\ mgrShutdown.status \in {"ok", "err"}) =>
           mgrShutdown = IF sdRes[ComponentWalletRPC].status = "err"
                         THEN sdRes[ComponentWalletRPC]
                         ELSE sdRes[ComponentMonerod]
    /\ (driver = "coordinator" /\ walletStart.status = "err"
            /\ GetKind(walletStart.err) = KindTimeout) =>
           /\ probe.res.status = "err"
           /\ Contains(walletStart.err, probe.res.err)
    /\ \A c \in Components :
           (spc = "idle" /\ sdRes[c].status = "ok" /\ proc[c].signals = pre[c].sigs) =>
               ~pre[c].held

\* A wallet Start whose readiness wait failed returned the Timeout error to
\* NewMoneroger after its cleanup Shutdown had itself failed.
C36_Witness ==
    /\ driver = "coordinator"
    /\ pc = "failed"
    /\ walletStart.status = "err"
    /\ GetKind(walletStart.err) = KindTimeout
    /\ create = walletStart
    /\ sdRes[ComponentWalletRPC].status = "err"
    /\ probe.res.status = "err"

\* C37 as stated: attach-or-create avoids duplicate daemons. At most one
\* daemon process is ever spawned for the port, and none is spawned while
\* another daemon is already listening on it, whenever the external daemon
\* began to listen.
C37_NoDuplicateDaemon ==
    [][(proc'[ComponentMonerod].spawns > proc[ComponentMonerod].spawns) =>
          /\ proc[ComponentMonerod].spawns = 0
          /\ ~IsPortInUse(d.rpcPort)]_vars

\* The daemon was attached to: NewMoneroDaemon found its port accepting
\* connections and returned without calling start.
Attached ==
    /\ driver \in {"coordinator", "daemon"}
    /\ seenAtStart[ComponentMonerod] = "open"
    /\ pc # "d_check"

\* C38 as stated: an attached daemon is never signalled, its handle holds no
\* process reference, and both its Shutdown and the coordinator's Shutdown
\* return success.
C38_Original ==
    Attached =>
        /\ ~d.process
        /\ proc[ComponentMonerod].signals = 0
        /\ sdRes[ComponentMonerod].status \in {"none", "ok"}
        /\ mgrShutdown.status \in {"none", "ok"}

\* C38 (amended): an attached daemon is never signalled and its handle holds
\* no process reference in any reachable state; its Shutdown returns success
\* without sending a signal, and the coordinator's Shutdown returns success
\* whenever the wallet supervisor's Shutdown did, returning the wallet's
\* error without calling the daemon's Shutdown otherwise.
C38_AttachedNeverSignalled ==
    Attached =>
        /\ ~d.process
        /\ proc[ComponentMonerod].spawns = 0
        /\ proc[ComponentMonerod].signals = 0
        /\ sdRes[ComponentMonerod].status \in {"none", "ok"}
        /\ dsInvoked => sdRes[ComponentMonerod] = Ok
        /\ (driver = "coordinator" /\ pc = "ready" /\ calls > 0) =>
              /\ sdRes[ComponentWalletRPC].status = "ok" =>
                     (mgrShutdown = Ok /\ dsInvoked)
              /\ sdRes[ComponentWalletRPC].status = "err" =>
                     (mgrShutdown = sdRes[ComponentWalletRPC] /\ ~dsInvoked)

\* The coordinator attached to an external daemon, spawned the wallet, and
\* its Shutdown returned success after calling the daemon's Shutdown while
\* the external daemon was still listening.
C38_Witness ==
    /\ driver = "coordinator"
    /\ Attached
    /\ pc = "ready"
    /\ calls > 0
    /\ mgrShutdown = Ok
    /\ dsInvoked
    /\ listening[d.rpcPort] = "ext"
    /\ proc[ComponentWalletRPC].signals > 0

\* C39: whenever a wallet process is spawned for a daemon that this program
\* spawned, the wallet's --daemon-login argument is the --rpc-login argument
\* the daemon process was started with, and it is what the daemon handle's
\* credential accessors return at any later time, whatever
\* util.SecurePassword would then generate.
C39_WalletLoginMatchesDaemon ==
    (driver = "coordinator" /\ proc[ComponentMonerod].spawns > 0
        /\ proc[ComponentWalletRPC].spawns > 0) =>
        /\ daemonArgs # NoDaemonArgs
        /\ walletArgs.daemonLogin = daemonArgs.rpcLogin
        /\ \A fresh \in Passwords :
              RPCUser(d) \o ":" \o RPCPass(d, fresh) = walletArgs.daemonLogin

\* Both processes were spawned, the daemon with a generated password, and
\* the coordinator has since shut them down.
C39_Witness ==
    /\ driver = "coordinator"
    /\ proc[ComponentMonerod].spawns = 1
    /\ proc[ComponentWalletRPC].spawns = 1
    /\ daemonArgs.rpcLogin = "gouser:pwA"
    /\ walletArgs.rpcLogin = "gouser:pwB"
    /\ pc = "ready"
    /\ calls > 0
    /\ mgrShutdown = Ok

\* C40 as stated: the wallet password setter and getter round-trip. After
\* SetWalletPass(p) with a non-empty p, WalletPass returns p; with no
\* password set it returns the default "changeme"; and it never returns the
\* RPC password or changes it.
C40_WalletPassRoundTrip ==
    wpRet.called =>
        /\ wpRet.val = IF wpRet.walletPass # "" THEN wpRet.walletPass ELSE "changeme"
        /\ wpRet.rpcPass # "" => wpRet.val # wpRet.rpcPass
        /\ wpRet.rpcAfter = wpRet.rpcPass


====
